---- MODULE Spec2Model ----
(***************************************************************************)
(* Security-posture tracking backend: the relational store (users,         *)
(* containers, security issues, reviews, violations, controls and          *)
(* architecture components), the handlers that write it (createContainer,  *)
(* createSecurityIssue, updateSecurityIssue, updateContainerRiskScore,     *)
(* createSecurityReview, processDocumentAiAnalysis,                        *)
(* createSecurityViolation, createSecurityControl,                         *)
(* createArchitectureComponent) and the queries that read it               *)
(* (getSecurityIssues, getSecurityViolations, getActiveSecurityViolations, *)
(* getUsers, getContainers, getSecurityControls,                           *)
(* getSecurityControlsByContainer, getArchitectureComponents,              *)
(* getDashboardAnalytics, getContainerRiskAnalytics).                      *)
(*                                                                         *)
(* Calls.  A handler is one atomic action, except where calls run          *)
(* together: there each awaited statement on the store is an action of its *)
(* own, and `calls` holds every call in flight with what it has read.      *)
(*                                                                         *)
(* Numbers.  Every score and impact dimension is a fixed-point number in   *)
(* units of 1/Scale (Scale = 10000, four decimals).  The issue formulas    *)
(* and the aggregates are computed exactly on these integers and rounded   *)
(* where the code rounds (Math.round, Math.round(x*100)/100); a value      *)
(* written unrounded to a `real` column is kept to four decimals           *)
(* (StoreReal).  Binary floating-point error below that is not modelled.   *)
(***************************************************************************)
EXTENDS Integers, Sequences, FiniteSets, TLC

VARIABLES
    users,        \* usersTable: sequence of rows, id = index
    containers,   \* containersTable: sequence of rows, id = index
    issues,       \* securityIssuesTable: sequence of rows, id = index
    reviews,      \* securityReviewsTable: sequence of rows, id = index
    violations,   \* securityViolationsTable: sequence of rows, id = index
    controls,     \* securityControlsTable: sequence of rows, id = index
    components,   \* architectureComponentsTable: sequence of rows, id = index
    now,          \* the clock read by new Date() / defaultNow()
    last,         \* the last handler call: its name, argument and outcome
    calls         \* the handler calls in flight, each at one of its awaits

vars == <<users, containers, issues, reviews, violations, controls, components,
          now, last, calls>>

tables == <<users, containers, issues, reviews, violations, controls, components>>

-----------------------------------------------------------------------------
(* Bounds of the model *)

MaxUsers == 1
MaxContainers == 2
MaxIssues == 2
MaxReviews == 1
MaxViolations == 1
MaxControls == 1
MaxComponents == 1
MaxTime == 1

-----------------------------------------------------------------------------
(* Numbers *)

\* fixed-point units per 1.0
Scale == 10000

\* one hundredth (two decimal places) in fixed-point units
Cent == Scale \div 100

\* a nullable integer column holding NULL (no id and no number a caller can
\* pass)
NULL == -1

\* an integer score or impact v as a fixed-point number
Num(v) == v * Scale

\* n / d rounded to the nearest integer, halves up (Math.round on n/d, n >= 0)
RoundDiv(n, d) == (2 * n + d) \div (2 * d)

\* the value n/d (n in fixed-point units) as stored in a `real` column
StoreReal(n, d) == RoundDiv(n, d)

\* Math.round((n/d) * 100) / 100 on a fixed-point numerator
Round2(n, d) == RoundDiv(n, d * Cent) * Cent

Min(a, b) == IF a <= b THEN a ELSE b

RECURSIVE SumOver(_, _, _)
\* sum of f[i] * g[i] over the indices in S
SumOver(S, f, g) ==
    IF S = {} THEN 0
    ELSE LET i == CHOOSE x \in S : TRUE
         IN  f[i] * g[i] + SumOver(S \ {i}, f, g)

-----------------------------------------------------------------------------
(* Enumerations of the schema *)

SeverityLevel == {"Critical", "High", "Medium", "Low"}
IssueStatus == {"Open", "In-progress", "Closed", "Resolved"}

ImpactFields == {"confidentiality_impact", "integrity_impact",
                 "availability_impact", "compliance_impact", "third_party_risk"}

-----------------------------------------------------------------------------
(* Issue risk score *)

\* a variant whose weights sum to 0.95
calculateRiskScore_short(c, i, a, co, tp) ==
    RoundDiv(25 * c + 25 * i + 20 * a + 15 * co + 10 * tp, 100 * Scale) * Scale

\* createSecurityIssue's local calculateRiskScore: weights .25/.25/.20/.15/.15,
\* Math.round to an integer
calculateRiskScore_create(c, i, a, co, tp) ==
    RoundDiv(25 * c + 25 * i + 20 * a + 15 * co + 15 * tp, 100 * Scale) * Scale

\* updateSecurityIssue's calculateRiskScore: weights .25/.25/.25/.15/.10,
\* rounded to 2 decimals
calculateRiskScore_update(c, i, a, co, tp) ==
    Round2(25 * c + 25 * i + 25 * a + 15 * co + 10 * tp, 100)

-----------------------------------------------------------------------------
(* Queries on the issue table *)

IssueIds == 1..Len(issues)
ContainerIds == 1..Len(containers)
UserIds == 1..Len(users)
ReviewIds == 1..Len(reviews)

\* WHERE container_id = c
IssuesOf(iss, c) == {i \in 1..Len(iss) : iss[i].container_id = c}

\* a variant that also counts the issues being worked on
OpenIssuesOf_active(iss, c) ==
    {i \in IssuesOf(iss, c) : iss[i].status \in {"Open", "In-progress"}}

\* WHERE container_id = c AND status = 'Open'
OpenIssuesOf(iss, c) == {i \in IssuesOf(iss, c) : iss[i].status = "Open"}

RiskOf(iss) == [i \in 1..Len(iss) |-> iss[i].risk_score]
Ones(iss) == [i \in 1..Len(iss) |-> 1]

\* SUM(risk_score) over the issues of container c
RiskSum(iss, c) == SumOver(IssuesOf(iss, c), RiskOf(iss), Ones(iss))

\* a variant that stores the sum instead of the average
avgRisk_sum(iss, c) == RiskSum(iss, c)

\* a variant that averages the Open issues only
roundedRiskScore_open(iss, c) ==
    LET open == {i \in IssuesOf(iss, c) : iss[i].status = "Open"}
    IN  IF open = {} THEN 0
        ELSE Round2(SumOver(open, RiskOf(iss), Ones(iss)), Cardinality(open))

\* createSecurityIssue lines 77-84: Number(avg(risk_score) || 0), as the
\* `real` column keeps it
avgRisk(iss, c) ==
    IF IssuesOf(iss, c) = {} THEN 0
    ELSE StoreReal(RiskSum(iss, c), Cardinality(IssuesOf(iss, c)))

\* update_security_issue helper lines 32-38: the average rounded to 2 decimals
roundedRiskScore(iss, c) ==
    IF IssuesOf(iss, c) = {} THEN 0
    ELSE Round2(RiskSum(iss, c), Cardinality(IssuesOf(iss, c)))

\* severityWeights of updateContainerRiskScore, in tenths
severityWeights ==
    [Critical |-> 10, High |-> 8, Medium |-> 6, Low |-> 3]

WeightOf(iss) == [i \in 1..Len(iss) |-> severityWeights[iss[i].severity]]

\* updateContainerRiskScore lines 27-53: severity-weighted mean of the Open
\* issues, capped at 100 and rounded to 2 decimals
weightedRiskScore(iss, c) ==
    LET open == OpenIssuesOf(iss, c)
        totalWeightedScore == SumOver(open, RiskOf(iss), WeightOf(iss))
        totalWeight == SumOver(open, WeightOf(iss), Ones(iss))
    IN  IF open = {} THEN 0
        ELSE IF totalWeight > 0
             THEN Min(Num(100), Round2(totalWeightedScore, totalWeight))
             ELSE 0

-----------------------------------------------------------------------------
(* Initial state: the empty database *)

\* no handler call is in flight
NoCalls == <<>>

NoCall ==
    [op |-> "none", id |-> NULL, input |-> <<>>, outcome |-> "none",
     ret |-> <<>>, fault |-> FALSE, repeat |-> FALSE]

Init ==
    /\ users = <<>>
    /\ containers = <<>>
    /\ issues = <<>>
    /\ reviews = <<>>
    /\ violations = <<>>
    /\ controls = <<>>
    /\ components = <<>>
    /\ now = 0
    /\ last = NoCall
    /\ calls = NoCalls

\* time passes between (or not between) two handler calls
Tick ==
    /\ now < MaxTime
    /\ now' = now + 1
    /\ UNCHANGED <<calls, users, containers, issues, reviews, last, violations, controls, components>>

\* the call that was just served: handler, target id, input, outcome
\* ("ok", "NotFound", "Error") and the row returned; fault: the store failed
\* during the call; repeat: the call before it was the same call
CalledWith(op, id, input, outcome, ret, fault) ==
    last' = [op |-> op, id |-> id, input |-> input, outcome |-> outcome,
             ret |-> ret, fault |-> fault,
             repeat |-> (last.op = op /\ last.id = id /\ last.input = input
                         /\ last.outcome = "ok" /\ outcome = "ok")]

Called(op, id, input, outcome, ret) ==
    CalledWith(op, id, input, outcome, ret, FALSE)

-----------------------------------------------------------------------------
(* Handlers *)

\* a row inserted in usersTable
createUser ==
    /\ Len(users) < MaxUsers
    /\ users' = Append(users, [role |-> "Admin", is_active |-> TRUE,
                                created_at |-> now])
    /\ Called("createUser", Len(users) + 1, <<>>, "ok", <<>>)
    /\ UNCHANGED <<calls, containers, issues, reviews, now, violations, controls, components>>

createContainer(created_by) ==
    IF created_by \notin UserIds
    THEN /\ Called("createContainer", created_by, [created_by |-> created_by],
                   "NotFound", <<"User">>)
         /\ UNCHANGED <<calls, users, containers, issues, reviews, now, violations, controls, components>>
    ELSE /\ Len(containers) < MaxContainers
         /\ LET row == [risk_score |-> 0, created_by |-> created_by,
                        is_active |-> TRUE, updated_at |-> now]
            IN  /\ containers' = Append(containers, row)
                /\ Called("createContainer", Len(containers) + 1,
                          [created_by |-> created_by], "ok", <<row>>)
         /\ UNCHANGED <<calls, users, issues, reviews, now, violations, controls, components>>

\* a variant that blends the new score with the stored one
SetContainerRisk_blend(cs, c, score) ==
    IF c \in 1..Len(cs)
    THEN [cs EXCEPT ![c].risk_score = (score + cs[c].risk_score) \div 2,
                    ![c].updated_at = now]
    ELSE cs

\* UPDATE containers SET risk_score, updated_at WHERE id = c (no row: no change)
SetContainerRisk(cs, c, score) ==
    IF c \in 1..Len(cs)
    THEN [cs EXCEPT ![c].risk_score = score, ![c].updated_at = now]
    ELSE cs

\* the row createSecurityIssue inserts
NewIssue(input) ==
    [severity |-> input.severity,
     status |-> "Open",
     risk_score |-> calculateRiskScore_create(
                        input.confidentiality_impact, input.integrity_impact,
                        input.availability_impact, input.compliance_impact,
                        input.third_party_risk),
     confidentiality_impact |-> input.confidentiality_impact,
     integrity_impact |-> input.integrity_impact,
     availability_impact |-> input.availability_impact,
     compliance_impact |-> input.compliance_impact,
     third_party_risk |-> input.third_party_risk,
     classification |-> input.classification,
     hierarchy |-> input.hierarchy,
     is_automated_finding |-> input.is_automated_finding,
     container_id |-> input.container_id,
     parent_issue_id |-> input.parent_issue_id,
     assigned_to |-> input.assigned_to,
     created_by |-> input.created_by,
     created_at |-> now,
     updated_at |-> now]

\* createSecurityIssue; dbFails: the store fails during the recompute that
\* follows the insert (lines 77-92), which the handler's catch rethrows
createSecurityIssue(input, dbFails) ==
    /\ Len(issues) < MaxIssues
    /\ LET row == NewIssue(input)
           inserted == Append(issues, row)
       IN  /\ issues' = inserted
           /\ IF dbFails
              THEN /\ containers' = containers
                   /\ CalledWith("createSecurityIssue", Len(inserted), input, "Error",
                                 <<>>, TRUE)
              ELSE /\ containers' = SetContainerRisk(containers, input.container_id,
                                        avgRisk(inserted, input.container_id))
                   /\ Called("createSecurityIssue", Len(inserted), input, "ok", <<row>>)
    /\ UNCHANGED <<calls, users, reviews, now, violations, controls, components>>

\* the fields of an issue row that updateSecurityIssue copies from its payload
\* (lines 73-85 and 118-122) when they are present in it
UpdatableFields ==
    {"severity", "status", "classification", "assigned_to"} \cup ImpactFields

\* a variant that recomputes on every update
impactChanged_always(input) == TRUE

\* lines 88-93: some impact dimension is present in the payload
impactChanged(input) == (DOMAIN input \cap ImpactFields) # {}

\* a variant that takes an absent dimension as 0
Provided_zero(input, current, f) == IF f \in DOMAIN input THEN input[f] ELSE 0

\* lines 97-115: the payload's value where present, the stored one otherwise
Provided(input, current, f) == IF f \in DOMAIN input THEN input[f] ELSE current[f]

\* lines 125-126: the formula on the mix of new and stored dimensions
newRiskScore(input, current) ==
    calculateRiskScore_update(
        Provided(input, current, "confidentiality_impact"),
        Provided(input, current, "integrity_impact"),
        Provided(input, current, "availability_impact"),
        Provided(input, current, "compliance_impact"),
        Provided(input, current, "third_party_risk"))

\* lines 68-134: the row after UPDATE ... SET updateValues
UpdatedIssue(input, current) ==
    [f \in DOMAIN current |->
        IF f = "updated_at" THEN now
        ELSE IF f = "risk_score"
             THEN IF impactChanged(input) THEN newRiskScore(input, current)
                  ELSE current.risk_score
        ELSE IF f \in UpdatableFields \cap DOMAIN input THEN input[f]
        ELSE current[f]]

\* update_security_issue's helper updateContainerRiskScore (lines 30-51):
\* simple average of all the container's issues, rounded to 2 decimals; a
\* store failure is caught and not rethrown
updateContainerRiskScore_helper(cs, iss, c, dbFails) ==
    IF dbFails THEN cs
    ELSE SetContainerRisk(cs, c, roundedRiskScore(iss, c))

\* updateSecurityIssue; dbFails: the store fails inside the helper
updateSecurityIssue(input, dbFails) ==
    IF input.id \notin IssueIds
    THEN /\ Called("updateSecurityIssue", input.id, input, "NotFound", <<>>)
         /\ UNCHANGED <<calls, users, containers, issues, reviews, now, violations, controls, components>>
    ELSE LET updatedIssue == UpdatedIssue(input, issues[input.id])
             updated == [issues EXCEPT ![input.id] = updatedIssue]
         IN  /\ issues' = updated
             /\ containers' =
                    IF impactChanged(input)
                    THEN updateContainerRiskScore_helper(containers, updated,
                             updatedIssue.container_id, dbFails)
                    ELSE containers
             /\ CalledWith("updateSecurityIssue", input.id, input, "ok",
                           <<updatedIssue>>, dbFails /\ impactChanged(input))
             /\ UNCHANGED <<calls, users, reviews, now, violations, controls, components>>

\* a variant without the existence check of lines 8-16
updateContainerRiskScore_unchecked(containerId) ==
    /\ containers' = SetContainerRisk(containers, containerId,
                          weightedRiskScore(issues, containerId))
    /\ Called("updateContainerRiskScore", containerId, <<>>, "ok", <<>>)
    /\ UNCHANGED <<calls, users, issues, reviews, now, violations, controls, components>>

\* the updateContainerRiskScore handler (update_container_risk_score.ts)
updateContainerRiskScore(containerId) ==
    IF containerId \notin ContainerIds
    THEN /\ Called("updateContainerRiskScore", containerId, <<>>, "NotFound", <<>>)
         /\ UNCHANGED <<calls, users, containers, issues, reviews, now, violations, controls, components>>
    ELSE LET updatedCs == SetContainerRisk(containers, containerId,
                              weightedRiskScore(issues, containerId))
         IN  /\ containers' = updatedCs
             /\ Called("updateContainerRiskScore", containerId, <<>>, "ok",
                       <<updatedCs[containerId]>>)
             /\ UNCHANGED <<calls, users, issues, reviews, now, violations, controls, components>>

-----------------------------------------------------------------------------
(* Security reviews *)

\* a text column holding NULL
NoText == "null"

\* title.toLowerCase().includes('architecture')
TitleHasArchitecture(title) == title \in {"Security Architecture Review"}

\* (document_type?.toLowerCase() || 'unknown').includes('pdf')
DocTypeHasPdf(dt) == dt \in {"PDF", "application/pdf"}

\* a variant whose analysis yields no result
simulateAIAnalysis_none(review) == NoText

\* simulateAIAnalysis: which of the two canned results (its
\* document_classification stands for the JSON text)
simulateAIAnalysis(review) ==
    IF DocTypeHasPdf(review.document_type) \/ TitleHasArchitecture(review.title)
    THEN "Architecture Review"
    ELSE "General"

\* if (input.container_id): null and 0 are both falsy
Truthy(v) == v # NULL /\ v # 0

createSecurityReview(input) ==
    IF input.created_by \notin UserIds
    THEN /\ Called("createSecurityReview", input.created_by, input, "NotFound",
                   <<"User">>)
         /\ UNCHANGED <<calls, users, containers, issues, reviews, now, violations, controls, components>>
    ELSE IF Truthy(input.container_id) /\ input.container_id \notin ContainerIds
    THEN /\ Called("createSecurityReview", input.container_id, input, "NotFound",
                   <<"Container">>)
         /\ UNCHANGED <<calls, users, containers, issues, reviews, now, violations, controls, components>>
    ELSE /\ Len(reviews) < MaxReviews
         /\ LET row == [title |-> input.title,
                        document_type |-> input.document_type,
                        container_id |-> input.container_id,
                        created_by |-> input.created_by,
                        status |-> "Pending",
                        ai_analysis_complete |-> FALSE,
                        ai_analysis_results |-> NoText,
                        reviewer_id |-> NULL,
                        updated_at |-> now]
            IN  /\ reviews' = Append(reviews, row)
                /\ Called("createSecurityReview", Len(reviews) + 1, input, "ok", <<row>>)
         /\ UNCHANGED <<calls, users, containers, issues, now, violations, controls, components>>

processDocumentAiAnalysis(reviewId) ==
    IF reviewId \notin ReviewIds
    THEN /\ Called("processDocumentAiAnalysis", reviewId, <<>>, "NotFound", <<>>)
         /\ UNCHANGED <<calls, users, containers, issues, reviews, now, violations, controls, components>>
    ELSE LET updatedReview ==
                 [reviews[reviewId] EXCEPT
                     !.status = "Completed",
                     !.ai_analysis_complete = TRUE,
                     !.ai_analysis_results = simulateAIAnalysis(reviews[reviewId]),
                     !.updated_at = now]
         IN  /\ reviews' = [reviews EXCEPT ![reviewId] = updatedReview]
             /\ Called("processDocumentAiAnalysis", reviewId, <<>>, "ok", <<updatedReview>>)
             /\ UNCHANGED <<calls, users, containers, issues, now, violations, controls, components>>

-----------------------------------------------------------------------------
(* Violations, controls and architecture components *)

ViolationIds == 1..Len(violations)

\* a failed call: the error names the entity and the id that was not found
NotFound(op, input, entity, id) ==
    /\ Called(op, id, input, "NotFound", <<entity>>)
    /\ UNCHANGED <<calls, users, containers, issues, reviews, violations, controls,
                   components, now>>

\* the row createSecurityViolation inserts
NewViolation(input) ==
    [severity |-> input.severity,
     status |-> "Open",
     violation_type |-> input.violation_type,
     incident_date |-> input.incident_date,
     container_id |-> input.container_id,
     related_issue_id |-> input.related_issue_id,
     assigned_to |-> input.assigned_to,
     created_by |-> input.created_by,
     created_at |-> now,
     updated_at |-> now]

createSecurityViolation(input) ==
    IF input.created_by \notin UserIds
    THEN NotFound("createSecurityViolation", input, "User", input.created_by)
    ELSE IF input.container_id # NULL /\ input.container_id \notin ContainerIds
    THEN NotFound("createSecurityViolation", input, "Container", input.container_id)
    ELSE IF input.related_issue_id # NULL /\ input.related_issue_id \notin IssueIds
    THEN NotFound("createSecurityViolation", input, "Security issue",
                  input.related_issue_id)
    ELSE IF input.assigned_to # NULL /\ input.assigned_to \notin UserIds
    THEN NotFound("createSecurityViolation", input, "Assigned user", input.assigned_to)
    ELSE /\ Len(violations) < MaxViolations
         /\ violations' = Append(violations, NewViolation(input))
         /\ Called("createSecurityViolation", Len(violations) + 1, input, "ok",
                   <<NewViolation(input)>>)
         /\ UNCHANGED <<calls, users, containers, issues, reviews, controls, components, now>>

\* x !== null ? parseFloat(x.toString()) : null
parseNotNull(x) == IF x # NULL THEN x ELSE NULL

\* x ? parseFloat(x.toString()) : null, where the number 0 is falsy
parseTruthy(x) == IF Truthy(x) THEN x ELSE NULL

createSecurityControl(input) ==
    IF input.container_id \notin ContainerIds
    THEN NotFound("createSecurityControl", input, "Container", input.container_id)
    ELSE IF input.created_by \notin UserIds
    THEN NotFound("createSecurityControl", input, "User", input.created_by)
    ELSE /\ Len(controls) < MaxControls
         /\ LET row == [implementation_status |-> input.implementation_status,
                        effectiveness_rating |-> input.effectiveness_rating,
                        container_id |-> input.container_id,
                        created_by |-> input.created_by,
                        is_active |-> TRUE,
                        created_at |-> now,
                        updated_at |-> now]
            IN  /\ controls' = Append(controls, row)
                /\ Called("createSecurityControl", Len(controls) + 1, input, "ok",
                          <<[row EXCEPT !.effectiveness_rating =
                                            parseNotNull(row.effectiveness_rating)]>>)
         /\ UNCHANGED <<calls, users, containers, issues, reviews, violations, components, now>>

\* the container and the creator must exist and be active
createArchitectureComponent(input) ==
    IF \/ input.container_id \notin ContainerIds
       \/ ~containers[input.container_id].is_active
    THEN NotFound("createArchitectureComponent", input, "Container",
                  input.container_id)
    ELSE IF input.created_by \notin UserIds \/ ~users[input.created_by].is_active
    THEN NotFound("createArchitectureComponent", input, "User", input.created_by)
    ELSE /\ Len(components) < MaxComponents
         /\ LET row == [position_x |-> input.position_x,
                        position_y |-> input.position_y,
                        container_id |-> input.container_id,
                        created_by |-> input.created_by,
                        is_active |-> TRUE,
                        created_at |-> now,
                        updated_at |-> now]
            IN  /\ components' = Append(components, row)
                /\ Called("createArchitectureComponent", Len(components) + 1, input,
                          "ok", <<[row EXCEPT !.position_x = parseTruthy(row.position_x),
                                              !.position_y = parseTruthy(row.position_y)]>>)
         /\ UNCHANGED <<calls, users, containers, issues, reviews, violations, controls, now>>

-----------------------------------------------------------------------------
(* Inputs of the main specification *)

\* ids a caller may pass: the rows that can exist, and one that never does
AnyUserId == 1..(MaxUsers + 1)
AnyContainerId == 1..(MaxContainers + 1)
AnyIssueId == 1..(MaxIssues + 1)
AnyReviewId == 1..(MaxReviews + 1)

\* the rest of a createSecurityIssue input: an unparented, unassigned Task
\* reported by user 1
IssueMeta ==
    [classification |-> "Vulnerability", hierarchy |-> "Task",
     is_automated_finding |-> FALSE, parent_issue_id |-> NULL,
     assigned_to |-> NULL, created_by |-> 1]

Impacts(c, i, a, co, tp) ==
    [confidentiality_impact |-> Num(c), integrity_impact |-> Num(i),
     availability_impact |-> Num(a), compliance_impact |-> Num(co),
     third_party_risk |-> Num(tp)]

\* impact profiles of the created issues
CreateImpacts == {Impacts(80, 70, 60, 10, 5), Impacts(100, 100, 100, 100, 100)}

CreateSeverities == {"Critical", "Low"}

CreateInputs ==
    {imp @@ [severity |-> s, container_id |-> c] @@ IssueMeta :
        imp \in CreateImpacts, s \in CreateSeverities, c \in AnyContainerId}

\* update payloads (without the id)
UpdatePayloads ==
    {[status |-> "Closed"],
     [status |-> "Open"],
     [severity |-> "High"],
     [compliance_impact |-> Num(5)]}

UpdateInputs == {[id |-> i] @@ p : i \in AnyIssueId, p \in UpdatePayloads}

\* closing an issue, on every issue id
CloseInputs == {[id |-> i, status |-> "Closed"] : i \in AnyIssueId}

-----------------------------------------------------------------------------
(* Specifications *)

\* the issue and container handlers, the store never failing
Next ==
    \/ createUser
    \/ \E u \in AnyUserId : createContainer(u)
    \/ \E input \in CreateInputs :
          input.container_id \in ContainerIds /\ createSecurityIssue(input, FALSE)
    \/ \E input \in UpdateInputs : updateSecurityIssue(input, FALSE)
    \/ \E c \in AnyContainerId : updateContainerRiskScore(c)

Spec == Init /\ [][Next]_vars

-----------------------------------------------------------------------------
(* The store with one user and one container, as createUser and            *)
(* createContainer leave it                                                *)

OneUser == <<[role |-> "Admin", is_active |-> TRUE, created_at |-> 0]>>

EmptyContainer ==
    [risk_score |-> 0, created_by |-> 1, is_active |-> TRUE, updated_at |-> 0]

InitScore ==
    /\ users = OneUser
    /\ containers = <<EmptyContainer>>
    /\ issues = <<>>
    /\ reviews = <<>>
    /\ violations = <<>>
    /\ controls = <<>>
    /\ components = <<>>
    /\ now = 0
    /\ last = NoCall
    /\ calls = NoCalls

\* the row of an issue created with input and later moved to status st
IssueInStatus(input, st) == [NewIssue(input) EXCEPT !.status = st]

\* all five dimensions equal to v
Uniform(v) == Impacts(v, v, v, v, v)

-----------------------------------------------------------------------------
(* The issue formulas on one issue: profiles and partial payloads *)

\* [0, 100]: the range the input schemas allow for an impact dimension
MaxImpact == 100

ScoreImpacts ==
    {imp @@ [severity |-> "High", container_id |-> 1] @@ IssueMeta :
        imp \in {Impacts(50, 30, 20, 10, 5), Impacts(80, 70, 60, 10, 5)}}

\* the value a payload carries for each dimension it names
PayloadValue ==
    [confidentiality_impact |-> Num(90), integrity_impact |-> Num(40),
     availability_impact |-> Num(90), compliance_impact |-> Num(40),
     third_party_risk |-> Num(40) + Cent]

\* every payload on issue 1 that names at least one impact dimension
ImpactPayloads ==
    {[id |-> 1] @@ [f \in D |-> PayloadValue[f]] :
        D \in (SUBSET ImpactFields) \ {{}}}

NextScore ==
    \/ \E input \in ScoreImpacts :
          issues = <<>> /\ createSecurityIssue(input, FALSE)
    \/ \E input \in ImpactPayloads : updateSecurityIssue(input, FALSE)

SpecScore == InitScore /\ [][NextScore]_vars

\* one issue, all five dimensions set to the same integer
UniformCreates ==
    {Uniform(v) @@ [severity |-> "High", container_id |-> 1] @@ IssueMeta :
        v \in 0..MaxImpact}

UniformUpdates == {[id |-> 1] @@ Uniform(v) : v \in 0..MaxImpact}

NextUniform ==
    \/ \E input \in UniformCreates :
          issues = <<>> /\ createSecurityIssue(input, FALSE)
    \/ \E input \in UniformUpdates : updateSecurityIssue(input, FALSE)

SpecUniform == InitScore /\ [][NextUniform]_vars

-----------------------------------------------------------------------------
(* updateContainerRiskScore on a container holding any mix of issues *)

MaxRecomputeIssues == 3

RecomputeScores == {60, 90}

\* issues created with uniform impacts (risk_score = the impact) in container
\* 1: Open ones of every severity, and Critical ones moved to any other status
RecomputeRows ==
    {IssueInStatus(Uniform(v) @@ [severity |-> sv, container_id |-> 1] @@ IssueMeta, "Open") :
        v \in RecomputeScores, sv \in SeverityLevel}
    \cup
    {IssueInStatus(Uniform(v) @@ [severity |-> "Critical", container_id |-> 1] @@ IssueMeta, st) :
        v \in RecomputeScores, st \in IssueStatus}

InitRecompute ==
    /\ now = 0
    /\ users = OneUser
    /\ \E n \in 0..MaxRecomputeIssues : issues \in [1..n -> RecomputeRows]
    /\ containers = <<[EmptyContainer EXCEPT !.risk_score = avgRisk(issues, 1)]>>
    /\ reviews = <<>>
    /\ violations = <<>>
    /\ controls = <<>>
    /\ components = <<>>
    /\ last = NoCall
    /\ calls = NoCalls

NextRecompute == \E c \in ContainerIds : updateContainerRiskScore(c)

SpecRecompute == InitRecompute /\ [][NextRecompute]_vars

-----------------------------------------------------------------------------
(* Recompute called again while the clock runs *)

ClockRows ==
    {IssueInStatus(Uniform(v) @@ [severity |-> sv, container_id |-> 1] @@ IssueMeta, st) :
        v \in RecomputeScores, sv \in {"Critical", "Low"}, st \in {"Open", "Closed"}}

InitClock ==
    /\ now = 0
    /\ users = OneUser
    /\ \E n \in 0..MaxIssues : issues \in [1..n -> ClockRows]
    /\ containers = <<[EmptyContainer EXCEPT !.risk_score = avgRisk(issues, 1)]>>
    /\ reviews = <<>>
    /\ violations = <<>>
    /\ controls = <<>>
    /\ components = <<>>
    /\ last = NoCall
    /\ calls = NoCalls

NextClock ==
    \/ Tick
    \/ \E c \in AnyContainerId : updateContainerRiskScore(c)
    \/ \E input \in CloseInputs : updateSecurityIssue(input, FALSE)

SpecClock == InitClock /\ [][NextClock]_vars

-----------------------------------------------------------------------------
(* Every handler that looks its target up, reviews included *)

NotFoundCreateInputs ==
    {Impacts(80, 70, 60, 10, 5) @@ [severity |-> "Critical", container_id |-> c] @@ IssueMeta :
        c \in ContainerIds}

ReviewInputs ==
    {[title |-> "Security Architecture Review", document_type |-> NoText,
      container_id |-> NULL, created_by |-> 1],
     [title |-> "Quarterly Policy Notes", document_type |-> NoText,
      container_id |-> 1, created_by |-> 1]}

NextNotFound ==
    \/ \E input \in NotFoundCreateInputs : createSecurityIssue(input, FALSE)
    \/ \E input \in CloseInputs : updateSecurityIssue(input, FALSE)
    \/ \E c \in AnyContainerId : updateContainerRiskScore(c)
    \/ \E input \in ReviewInputs : createSecurityReview(input)
    \/ \E r \in AnyReviewId : processDocumentAiAnalysis(r)

SpecNotFound == InitScore /\ [][NextNotFound]_vars

-----------------------------------------------------------------------------
(* Reviews created and analysed while the clock runs *)

ReviewDocuments ==
    {[title |-> t, document_type |-> dt, container_id |-> c, created_by |-> 1] :
        t \in {"Security Architecture Review", "Quarterly Policy Notes"},
        dt \in {NoText, "PDF", "application/pdf"},
        c \in {NULL, 1}}

NextReviews ==
    \/ Tick
    \/ \E input \in ReviewDocuments : createSecurityReview(input)
    \/ \E r \in AnyReviewId : processDocumentAiAnalysis(r)

SpecReviews == InitScore /\ [][NextReviews]_vars

-----------------------------------------------------------------------------
(* The store may fail during the recompute that follows an issue write *)

NextFault ==
    \/ createUser
    \/ \E u \in AnyUserId : createContainer(u)
    \/ \E input \in CreateInputs, dbFails \in BOOLEAN :
          input.container_id \in ContainerIds /\ createSecurityIssue(input, dbFails)
    \/ \E input \in UpdateInputs, dbFails \in BOOLEAN :
          updateSecurityIssue(input, dbFails)

SpecFault == Init /\ [][NextFault]_vars

-----------------------------------------------------------------------------
(* The create handlers, called with references that resolve and that do not *)

\* createSecurityIssue inputs by their references: container, parent,
\* assignee, creator
RefIssue(c, parent, assignee, creator) ==
    [Impacts(80, 70, 60, 10, 5) @@ [severity |-> "High", container_id |-> c]
        @@ IssueMeta
     EXCEPT !.parent_issue_id = parent, !.assigned_to = assignee,
            !.created_by = creator]

RefIssueInputs ==
    {RefIssue(1, NULL, NULL, 1), RefIssue(1, 1, 1, 1), RefIssue(2, 1, NULL, 1),
     RefIssue(MaxContainers + 1, NULL, NULL, 1), RefIssue(1, MaxIssues + 1, NULL, 1),
     RefIssue(1, NULL, MaxUsers + 1, 1), RefIssue(1, NULL, NULL, MaxUsers + 1)}

RefReviewInputs ==
    {[title |-> "Quarterly Policy Notes", document_type |-> NoText,
      container_id |-> c, created_by |-> u] :
        c \in {NULL, 0, 1, MaxContainers + 1}, u \in {1, MaxUsers + 1}}

RefViolation(c, issue, assignee, creator) ==
    [severity |-> "High", violation_type |-> "DataLeak", incident_date |-> 0,
     container_id |-> c, related_issue_id |-> issue, assigned_to |-> assignee,
     created_by |-> creator]

RefViolationInputs ==
    {RefViolation(NULL, NULL, NULL, 1), RefViolation(1, 1, 1, 1),
     RefViolation(MaxContainers + 1, NULL, NULL, 1),
     RefViolation(NULL, MaxIssues + 1, NULL, 1),
     RefViolation(NULL, NULL, MaxUsers + 1, 1),
     RefViolation(NULL, NULL, NULL, MaxUsers + 1),
     RefViolation(MaxContainers + 1, MaxIssues + 1, NULL, 1)}

RefControlInputs ==
    {[implementation_status |-> "Existing", effectiveness_rating |-> NULL,
      container_id |-> c, created_by |-> u] :
        c \in {1, MaxContainers + 1}, u \in {1, MaxUsers + 1}}

RefComponentInputs ==
    {[position_x |-> NULL, position_y |-> NULL, container_id |-> c, created_by |-> u] :
        c \in {1, MaxContainers + 1}, u \in {1, MaxUsers + 1}}

NextRefs ==
    \/ \E u \in AnyUserId : createContainer(u)
    \/ \E input \in RefIssueInputs : createSecurityIssue(input, FALSE)
    \/ \E input \in RefReviewInputs : createSecurityReview(input)
    \/ \E input \in RefViolationInputs : createSecurityViolation(input)
    \/ \E input \in RefControlInputs : createSecurityControl(input)
    \/ \E input \in RefComponentInputs : createArchitectureComponent(input)

SpecRefs == InitScore /\ [][NextRefs]_vars

-----------------------------------------------------------------------------
(* Partial updates of issues while the clock runs *)

\* the value a payload carries for each field it names
FrameValue ==
    [status |-> "Closed", assigned_to |-> 1, compliance_impact |-> Num(5)]

\* every payload over these fields, the empty one included, on every issue id
FramePayloads ==
    {[id |-> i] @@ [f \in D |-> FrameValue[f]] :
        i \in AnyIssueId, D \in SUBSET DOMAIN FrameValue}

\* the issue the updates are made on
FrameIssue == RefIssue(1, NULL, NULL, 1)

NextFrame ==
    \/ Tick
    \/ createSecurityIssue(FrameIssue, FALSE)
    \/ \E input \in FramePayloads : updateSecurityIssue(input, FALSE)

SpecFrame == InitScore /\ [][NextFrame]_vars

-----------------------------------------------------------------------------
(* Queries.  A query returns rows; the model records the returned rows' ids, *)
(* in the order returned.                                                   *)

\* sort keys are pairs of integers, compared first on [1] and then on [2]
Less(a, b) == a[1] < b[1] \/ (a[1] = b[1] /\ a[2] < b[2])

\* the rows of S that an ORDER BY on key may return first
Firsts(S, key) == {m \in S : \A x \in S : ~Less(key[x], key[m])}

\* every listing of S in ascending key, tie by tie
RECURSIVE Ties(_, _)
Ties(S, key) ==
    IF S = {} THEN {<<>>}
    ELSE UNION {{<<m>> \o L : L \in Ties(S \ {m}, key)} : m \in Firsts(S, key)}

\* the set holding the one listing of S in ascending key when no two rows
\* of S share a key:
\* the row at place k has k-1 rows before it
Ranked(S, key) ==
    {[k \in 1..Cardinality(S) |-> CHOOSE m \in S : before[m] = k - 1] :
        before \in {[m \in S |-> Cardinality({x \in S : Less(key[x], key[m])})]}}

\* every listing of S an ORDER BY on key (ascending) may return: rows with
\* equal keys come in an order the database chooses
Listings(S, key) ==
    IF \A x, y \in S : x # y => key[x] # key[y]
    THEN Ranked(S, key)
    ELSE Ties(S, key)

\* the WHERE clause of getSecurityIssues with the upper risk bound dropped
IssueMatches_open(issue, filter) ==
    /\ "container_id" \in DOMAIN filter => issue.container_id = filter.container_id
    /\ "severity" \in DOMAIN filter => issue.severity = filter.severity
    /\ "status" \in DOMAIN filter => issue.status = filter.status
    /\ "classification" \in DOMAIN filter =>
           issue.classification = filter.classification
    /\ "assigned_to" \in DOMAIN filter => issue.assigned_to = filter.assigned_to
    /\ "is_automated_finding" \in DOMAIN filter =>
           issue.is_automated_finding = filter.is_automated_finding
    /\ "created_after" \in DOMAIN filter => issue.created_at >= filter.created_after
    /\ "created_before" \in DOMAIN filter => issue.created_at <= filter.created_before
    /\ "risk_score_min" \in DOMAIN filter => issue.risk_score >= filter.risk_score_min

\* the WHERE clause of getSecurityIssues: one condition per field the filter
\* holds, all of them ANDed.  A filter is a record whose DOMAIN is the fields
\* provided; no filter at all is the empty record.  The enum and Date fields
\* are tested for truthiness, which every value the schema admits passes.
IssueMatches(issue, filter) ==
    /\ "container_id" \in DOMAIN filter => issue.container_id = filter.container_id
    /\ "severity" \in DOMAIN filter => issue.severity = filter.severity
    /\ "status" \in DOMAIN filter => issue.status = filter.status
    /\ "classification" \in DOMAIN filter =>
           issue.classification = filter.classification
    /\ "assigned_to" \in DOMAIN filter => issue.assigned_to = filter.assigned_to
    /\ "is_automated_finding" \in DOMAIN filter =>
           issue.is_automated_finding = filter.is_automated_finding
    /\ "created_after" \in DOMAIN filter => issue.created_at >= filter.created_after
    /\ "created_before" \in DOMAIN filter => issue.created_at <= filter.created_before
    /\ "risk_score_min" \in DOMAIN filter => issue.risk_score >= filter.risk_score_min
    /\ "risk_score_max" \in DOMAIN filter => issue.risk_score <= filter.risk_score_max

\* ORDER BY risk_score DESC alone
issueOrder_score(iss) == [i \in DOMAIN iss |-> <<0 - iss[i].risk_score, 0>>]

\* ORDER BY risk_score DESC, created_at DESC
issueOrder(iss) ==
    [i \in DOMAIN iss |-> <<0 - iss[i].risk_score, 0 - iss[i].created_at>>]

getSecurityIssues(filter) ==
    /\ \E L \in Listings({i \in IssueIds : IssueMatches(issues[i], filter)},
                         issueOrder(issues)) :
           Called("getSecurityIssues", NULL, filter, "ok", L)
    /\ UNCHANGED <<calls, users, containers, issues, reviews, violations, controls,
                   components, now>>

-----------------------------------------------------------------------------
(* getSecurityIssues on a store holding any mix of issues *)

MaxQueryIssues == 3

\* issues as createSecurityIssue and updateSecurityIssue leave them; every
\* column a filter can test takes two values among them
QueryRows ==
    LET row(v, sv, c) ==
            NewIssue(Uniform(v) @@ [severity |-> sv, container_id |-> c] @@ IssueMeta)
    IN  { row(60, "High", 1),
          row(90, "Critical", 1),
          [row(60, "High", 1) EXCEPT !.status = "Closed", !.assigned_to = 1,
                                     !.classification = "Exposure"],
          [row(60, "High", 2) EXCEPT !.is_automated_finding = TRUE] }

\* rows created at times that do not decrease with the id
CreatedAt(rows, at) ==
    [i \in DOMAIN rows |-> [rows[i] EXCEPT !.created_at = at[i], !.updated_at = at[i]]]

Ascending(at) == \A i, j \in DOMAIN at : i < j => at[i] <= at[j]

InitIssueQuery ==
    /\ now = MaxTime
    /\ users = OneUser
    /\ \E n \in 0..MaxQueryIssues :
         \E rows \in [1..n -> QueryRows], at \in [1..n -> 0..MaxTime] :
            /\ Ascending(at)
            /\ issues = CreatedAt(rows, at)
    /\ containers = [c \in 1..MaxContainers |->
                        [EmptyContainer EXCEPT !.risk_score = avgRisk(issues, c)]]
    /\ reviews = <<>>
    /\ violations = <<>>
    /\ controls = <<>>
    /\ components = <<>>
    /\ last = NoCall
    /\ calls = NoCalls

\* one value per filter field
FilterValue ==
    [container_id |-> 1, severity |-> "High", status |-> "Open",
     classification |-> "Vulnerability", assigned_to |-> 1,
     is_automated_finding |-> FALSE, created_after |-> MaxTime,
     created_before |-> 0, risk_score_min |-> Num(90), risk_score_max |-> Num(60)]

\* no filter, every filter of one field, some of two, the filter of all
\* fields, and filters holding the other value of a field (each an explicit
\* record: the fields of D added to the empty one)
IssueFilters ==
    {<<>> @@ [f \in D |-> FilterValue[f]] :
        D \in {D \in SUBSET DOMAIN FilterValue : Cardinality(D) <= 1}}
    \cup {<<>> @@ [f \in D |-> FilterValue[f]] :
            D \in {{"container_id", "status"}, {"severity", "risk_score_min"},
                   {"created_after", "risk_score_max"}}}
    \cup {FilterValue}
    \cup {[risk_score_min |-> Num(60), risk_score_max |-> Num(90)],
          [created_after |-> 0, created_before |-> MaxTime],
          [container_id |-> MaxContainers + 1]}

NextIssueQuery == \E filter \in IssueFilters : getSecurityIssues(filter)

SpecIssueQuery == InitIssueQuery /\ [][NextIssueQuery]_vars

-----------------------------------------------------------------------------
(* Listing violations and users *)

\* the limits the input schemas apply when the caller gives none
DefaultViolationLimit == 100
DefaultUserLimit == 50

\* the value of field f after the schema's parse: the caller's, or the default
Parsed(input, f, default) == IF f \in DOMAIN input THEN input[f] ELSE default

\* rows offset+1 .. offset+limit of a listing, with the offset ignored
Page_head(L, limit, offset) == SubSeq(L, 1, Min(Len(L), limit))

\* .limit(limit).offset(offset): rows offset+1 .. offset+limit of a listing
Page(L, limit, offset) ==
    IF offset >= Len(L) THEN <<>>
    ELSE SubSeq(L, offset + 1, Min(Len(L), offset + limit))

\* the CASE expression that ranks a severity
severityRank(sv) ==
    CASE sv = "Critical" -> 1
      [] sv = "High" -> 2
      [] sv = "Medium" -> 3
      [] sv = "Low" -> 4
      [] OTHER -> 5

\* the position of a status in the issue_status enum, which orders the column
statusOrder(st) ==
    CASE st = "Open" -> 1
      [] st = "In-progress" -> 2
      [] st = "Closed" -> 3
      [] st = "Resolved" -> 4

\* the WHERE clause of getSecurityViolations: a condition for each filter
\* field that is truthy (a filter on id 0 is dropped)
ViolationMatches(v, input) ==
    /\ "violation_type" \in DOMAIN input => v.violation_type = input.violation_type
    /\ "severity" \in DOMAIN input => v.severity = input.severity
    /\ "status" \in DOMAIN input => v.status = input.status
    /\ ("assigned_to" \in DOMAIN input /\ Truthy(input.assigned_to)) =>
           v.assigned_to = input.assigned_to
    /\ ("container_id" \in DOMAIN input /\ Truthy(input.container_id)) =>
           v.container_id = input.container_id
    /\ "created_after" \in DOMAIN input => v.created_at >= input.created_after
    /\ "created_before" \in DOMAIN input => v.created_at <= input.created_before
    /\ "incident_after" \in DOMAIN input => v.incident_date >= input.incident_after
    /\ "incident_before" \in DOMAIN input => v.incident_date <= input.incident_before

\* the ORDER BY of getSecurityViolations for each order_by
violationOrder(vs, order_by) ==
    [i \in DOMAIN vs |->
        CASE order_by = "incident_date" -> <<0 - vs[i].incident_date, 0>>
          [] order_by = "severity" -> <<severityRank(vs[i].severity), 0>>
          [] order_by = "status" -> <<0 - statusOrder(vs[i].status), 0>>
          [] OTHER -> <<0 - vs[i].created_at, 0>>]

getSecurityViolations(input) ==
    /\ LET limit == Parsed(input, "limit", DefaultViolationLimit)
           offset == Parsed(input, "offset", 0)
           order_by == Parsed(input, "order_by", "created_at")
           key == violationOrder(violations, order_by)
       IN  \E L \in Listings({i \in ViolationIds :
                                 ViolationMatches(violations[i], input)}, key) :
               Called("getSecurityViolations", NULL, input, "ok",
                      Page(L, limit, offset))
    /\ UNCHANGED <<calls, users, containers, issues, reviews, violations, controls,
                   components, now>>

\* ORDER BY severity rank alone
activeOrder_rank(vs) == [i \in DOMAIN vs |-> <<severityRank(vs[i].severity), 0>>]

\* ORDER BY severity rank ASC, created_at DESC
activeOrder(vs) ==
    [i \in DOMAIN vs |-> <<severityRank(vs[i].severity), 0 - vs[i].created_at>>]

getActiveSecurityViolations ==
    /\ \E L \in Listings({i \in ViolationIds :
                             \/ violations[i].status = "Open"
                             \/ violations[i].status = "In-progress"},
                         activeOrder(violations)) :
           Called("getActiveSecurityViolations", NULL, <<>>, "ok", L)
    /\ UNCHANGED <<calls, users, containers, issues, reviews, violations, controls,
                   components, now>>

\* the WHERE clause of getUsers
UserMatches(u, input) ==
    /\ "role" \in DOMAIN input => u.role = input.role
    /\ "is_active" \in DOMAIN input => u.is_active = input.is_active

\* ORDER BY created_at DESC
userOrder(us) == [i \in DOMAIN us |-> <<0 - us[i].created_at, 0>>]

\* the pages the query of getUsers may return: users sharing a created_at
\* come in any order, chosen anew by every query
usersQuery(input) ==
    LET limit == Parsed(input, "limit", DefaultUserLimit)
        offset == Parsed(input, "offset", 0)
    IN  {Page(L, limit, offset) :
            L \in Listings({i \in UserIds : UserMatches(users[i], input)},
                           userOrder(users))}

getUsers(input) ==
    /\ \E page \in usersQuery(input) : Called("getUsers", NULL, input, "ok", page)
    /\ UNCHANGED <<calls, users, containers, issues, reviews, violations, controls,
                   components, now>>

-----------------------------------------------------------------------------
(* The listings on a store holding any mix of violations or of users, and   *)
(* on a store holding more rows than the default limits                     *)

MaxListed == 3

\* violations as createSecurityViolation inserts them and as later status
\* changes leave them
ViolationRows ==
    LET row(sv, st) == [NewViolation(RefViolation(NULL, NULL, NULL, 1))
                           EXCEPT !.severity = sv, !.status = st]
    IN  { row("Critical", "Open"),
          [row("High", "In-progress") EXCEPT !.incident_date = MaxTime,
                                             !.container_id = 1, !.assigned_to = 1],
          row("Low", "Resolved"),
          [row("Medium", "Closed") EXCEPT !.violation_type = "PolicyViolation"] }

UserRows ==
    { [role |-> "Admin", is_active |-> TRUE, created_at |-> 0],
      [role |-> "Viewer", is_active |-> FALSE, created_at |-> 0] }

\* rows created at times that do not decrease with the id
UsersCreatedAt(rows, at) ==
    [i \in DOMAIN rows |-> [rows[i] EXCEPT !.created_at = at[i]]]

\* one row more than the default limit, each created after the one before
ManyViolations ==
    [i \in 1..(DefaultViolationLimit + 1) |->
        [NewViolation(RefViolation(NULL, NULL, NULL, 1))
            EXCEPT !.severity = IF i % 2 = 0 THEN "Low" ELSE "Critical",
                   !.incident_date = i, !.created_at = i, !.updated_at = i]]

ManyUsers ==
    [i \in 1..(DefaultUserLimit + 1) |->
        [role |-> "Admin", is_active |-> TRUE, created_at |-> i]]

InitListing ==
    /\ now = MaxTime
    /\ users = OneUser
    /\ containers = <<EmptyContainer>>
    /\ issues = <<>>
    /\ reviews = <<>>
    /\ \E n \in 0..MaxListed :
         \E rows \in [1..n -> ViolationRows], at \in [1..n -> 0..MaxTime] :
            /\ Ascending(at)
            /\ violations = CreatedAt(rows, at)
    /\ controls = <<>>
    /\ components = <<>>
    /\ last = NoCall
    /\ calls = NoCalls

\* what a caller asks of getSecurityViolations: nothing, an order, a filter
ViolationQueries ==
    { [f \in {} |-> 0],
      [order_by |-> "created_at"], [order_by |-> "incident_date"],
      [order_by |-> "severity"], [order_by |-> "status"],
      [status |-> "Open"], [severity |-> "Critical"],
      [violation_type |-> "PolicyViolation"],
      [assigned_to |-> 1], [container_id |-> 1],
      [created_after |-> MaxTime], [created_before |-> 0],
      [incident_after |-> MaxTime], [incident_before |-> 0],
      [order_by |-> "severity", status |-> "Open"] }

NextListing ==
    \/ \E input \in ViolationQueries : getSecurityViolations(input)
    \/ getActiveSecurityViolations

SpecListing == InitListing /\ [][NextListing]_vars

-----------------------------------------------------------------------------
(* Pages of violations and of users, on small stores and on a store holding *)
(* more rows than the default limits                                        *)

InitPage ==
    /\ containers = <<EmptyContainer>>
    /\ issues = <<>>
    /\ reviews = <<>>
    /\ controls = <<>>
    /\ components = <<>>
    /\ last = NoCall
    /\ calls = NoCalls
    /\ \/ /\ now = MaxTime
          /\ users = OneUser
          /\ \E n \in 0..MaxListed :
               \E rows \in [1..n -> ViolationRows], at \in [1..n -> 0..MaxTime] :
                  /\ Ascending(at)
                  /\ violations = CreatedAt(rows, at)
       \/ /\ now = MaxTime
          /\ violations = <<>>
          /\ \E n \in 1..MaxListed :
               \E rows \in [1..n -> UserRows], at \in [1..n -> 0..MaxTime] :
                  /\ Ascending(at)
                  /\ users = UsersCreatedAt(rows, at)
       \/ /\ now = DefaultViolationLimit + 1
          /\ users = ManyUsers
          /\ violations = ManyViolations

\* pages a caller asks of getSecurityViolations: the defaults, a limit, an
\* offset, both, and a page of a filtered listing
ViolationPages ==
    { [f \in {} |-> 0],
      [limit |-> 1], [offset |-> 1], [offset |-> 2],
      [limit |-> 2, offset |-> 1],
      [limit |-> DefaultViolationLimit + 1],
      [offset |-> DefaultViolationLimit + 1],
      [order_by |-> "incident_date", limit |-> 2, offset |-> 1],
      [status |-> "Open", limit |-> 1, offset |-> 1] }

UserPages ==
    { [f \in {} |-> 0],
      [limit |-> 1], [offset |-> 1],
      [limit |-> 2, offset |-> 1],
      [offset |-> DefaultUserLimit + 1],
      [role |-> "Admin", limit |-> 1, offset |-> 1],
      [is_active |-> TRUE, offset |-> 1] }

NextPage ==
    \/ \E input \in ViolationPages : getSecurityViolations(input)
    \/ \E input \in UserPages : getUsers(input)

SpecPage == InitPage /\ [][NextPage]_vars

-----------------------------------------------------------------------------
(* The dashboard *)

\* COUNT(*) ... GROUP BY column: the number of rows holding v in column f
countBy(rows, f, v) == Cardinality({i \in DOMAIN rows : rows[i][f] = v})

\* resolved_issues counting the Closed issues only
resolvedIssues_closed(statusBreakdown) == statusBreakdown["Closed"]

\* resolved_issues: statusBreakdown.Closed + statusBreakdown.Resolved
resolvedIssues(statusBreakdown) ==
    statusBreakdown["Closed"] + statusBreakdown["Resolved"]

\* AVG(risk_score) over all issues, NULL (read as 0) when there is none
averageRiskScore(iss) ==
    IF iss = <<>> THEN 0
    ELSE RoundDiv(SumOver(DOMAIN iss, RiskOf(iss), Ones(iss)), Len(iss))

\* a variant that ranks the containers by ascending average
topRiskOrder_asc(iss, cs) == [c \in DOMAIN cs |-> <<avgRisk(iss, c), 0>>]

\* the containers joined to their issues, ordered by descending average
\* risk_score of those issues
topRiskOrder(iss, cs) == [c \in DOMAIN cs |-> <<0 - avgRisk(iss, c), 0>>]

\* .limit(5) of the top risk containers query
TopLimit == 5

\* one row of the top risk containers query: the group of container c
\* (container_name, a copy of the container's name column, is left out)
topRiskContainer(iss, c) ==
    [container_id |-> c,
     risk_score |-> avgRisk(iss, c),
     issue_count |-> Cardinality(IssuesOf(iss, c))]

\* thirtyDaysAgo.setDate(getDate() - 30), the clock counting days
RecentDays == 30

\* .limit(10) of the recent violations query
RecentLimit == 10

\* WHERE incident_date >= thirtyDaysAgo
recentViolations(vs, today) ==
    {i \in DOMAIN vs : vs[i].incident_date >= today - RecentDays}

\* ORDER BY created_at DESC
recentOrder(vs) == [i \in DOMAIN vs |-> <<0 - vs[i].created_at, 0>>]

\* getDashboardAnalytics
getDashboardAnalytics ==
    /\ LET severityBreakdown == [sv \in SeverityLevel |-> countBy(issues, "severity", sv)]
           statusBreakdown == [st \in IssueStatus |-> countBy(issues, "status", st)]
           active == {i \in DOMAIN controls : controls[i].is_active}
           controlBreakdown ==
               [existing |-> Cardinality({i \in active :
                                controls[i].implementation_status = "Existing"}),
                planned |-> Cardinality({i \in active :
                                controls[i].implementation_status = "Planned"}),
                not_specified |-> Cardinality({i \in active :
                                controls[i].implementation_status = "NotSpecified"})]
           totalIssues == severityBreakdown["Critical"] + severityBreakdown["High"]
                          + severityBreakdown["Medium"] + severityBreakdown["Low"]
       IN  \E top \in Listings({c \in ContainerIds : IssuesOf(issues, c) # {}},
                               topRiskOrder(issues, containers)),
              recent \in Listings(recentViolations(violations, now),
                                  recentOrder(violations)) :
               Called("getDashboardAnalytics", NULL, <<>>, "ok",
                      <<[total_issues |-> totalIssues,
                         critical_issues |-> severityBreakdown["Critical"],
                         high_issues |-> severityBreakdown["High"],
                         medium_issues |-> severityBreakdown["Medium"],
                         low_issues |-> severityBreakdown["Low"],
                         open_issues |-> statusBreakdown["Open"]
                                         + statusBreakdown["In-progress"],
                         resolved_issues |-> resolvedIssues(statusBreakdown),
                         average_risk_score |-> averageRiskScore(issues),
                         top_risk_containers |->
                             [k \in 1..Min(Len(top), TopLimit) |->
                                 topRiskContainer(issues, top[k])],
                         recent_violations |-> Page(recent, RecentLimit, 0),
                         control_coverage |-> controlBreakdown]>>)
    /\ UNCHANGED <<calls, users, containers, issues, reviews, violations, controls,
                   components, now>>

\* the dashboard read on a store holding any mix of issues, before and after
\* a control is added
NextDashboard ==
    \/ getDashboardAnalytics
    \/ \E input \in RefControlInputs : createSecurityControl(input)

SpecDashboard == InitRecompute /\ [][NextDashboard]_vars

-----------------------------------------------------------------------------
(* The dashboard on a store holding more containers with issues than the    *)
(* top risk list keeps                                                      *)

\* the risk scores of the issues container c holds: no more than three
\* containers can share a mean
TopRiskProfiles(c) ==
    IF c <= 3 THEN {<<>>, <<60>>, <<90>>, <<60, 90>>}
    ELSE {<<>>, <<70>>, <<80>>, <<60, 80>>}

TopRiskIssue(v, c) ==
    IssueInStatus(Uniform(v) @@ [severity |-> "High", container_id |-> c] @@ IssueMeta,
                  "Open")

\* the issues of containers 1..c, container by container
RECURSIVE ProfileIssues(_, _)
ProfileIssues(p, c) ==
    IF c = 0 THEN <<>>
    ELSE ProfileIssues(p, c - 1) \o [k \in 1..Len(p[c]) |-> TopRiskIssue(p[c][k], c)]

InitTopRisk ==
    /\ now = 0
    /\ users = OneUser
    /\ \E p \in [1..(TopLimit + 1) -> UNION {TopRiskProfiles(c) : c \in 1..(TopLimit + 1)}] :
           /\ \A c \in 1..(TopLimit + 1) : p[c] \in TopRiskProfiles(c)
           /\ issues = ProfileIssues(p, TopLimit + 1)
           /\ containers = [c \in 1..(TopLimit + 1) |->
                               [EmptyContainer EXCEPT !.risk_score = avgRisk(issues, c)]]
    /\ reviews = <<>>
    /\ violations = <<>>
    /\ controls = <<>>
    /\ components = <<>>
    /\ last = NoCall
    /\ calls = NoCalls

SpecTopRisk == InitTopRisk /\ [][getDashboardAnalytics]_vars

-----------------------------------------------------------------------------
(* The dashboard on a store holding violations of any age, and on one       *)
(* holding more recent violations than the list keeps; the clock counts days *)

MaxRecent == 3

\* the day of the read
Today == RecentDays + RecentLimit

\* how many days before the read the incident happened
IncidentAges == {RecentDays + 5, RecentDays, RecentLimit, 1}

\* violations reported yesterday or today about incidents of any age
RecentRows(age, at) ==
    [i \in DOMAIN age |->
        [NewViolation(RefViolation(NULL, NULL, NULL, 1))
            EXCEPT !.incident_date = Today - age[i],
                   !.created_at = at[i], !.updated_at = at[i]]]

\* one violation more than the list keeps, each reported a day after the
\* one before, the later reports about the older incidents
ManyRecent ==
    [i \in 1..(RecentLimit + 1) |->
        [NewViolation(RefViolation(NULL, NULL, NULL, 1))
            EXCEPT !.incident_date = Today - RecentLimit - i,
                   !.created_at = Today - RecentLimit - 1 + i,
                   !.updated_at = Today - RecentLimit - 1 + i]]

InitRecent ==
    /\ now = Today
    /\ users = OneUser
    /\ containers = <<EmptyContainer>>
    /\ issues = <<>>
    /\ reviews = <<>>
    /\ \/ \E n \in 0..MaxRecent :
            \E age \in [1..n -> IncidentAges], at \in [1..n -> {Today - 1, Today}] :
               /\ Ascending(at)
               /\ violations = RecentRows(age, at)
       \/ violations = ManyRecent
    /\ controls = <<>>
    /\ components = <<>>
    /\ last = NoCall
    /\ calls = NoCalls

SpecRecent == InitRecent /\ [][getDashboardAnalytics]_vars

-----------------------------------------------------------------------------
(* The reads of controls and of architecture components *)

\* a SELECT without ORDER BY returns its rows in any order
unordered(rows) == [i \in DOMAIN rows |-> <<0, 0>>]

\* getSecurityControls conditions: implementation_status when truthy,
\* container_id and is_active when not undefined
ControlMatches(control, filters) ==
    /\ "implementation_status" \in DOMAIN filters
           => control.implementation_status = filters.implementation_status
    /\ "container_id" \in DOMAIN filters => control.container_id = filters.container_id
    /\ "is_active" \in DOMAIN filters => control.is_active = filters.is_active

\* results.map(control => ({...control, effectiveness_rating: ...})) of both
\* control reads
returnedControl(cs, i) ==
    [id |-> i, effectiveness_rating |-> parseTruthy(cs[i].effectiveness_rating)]

getSecurityControls(filters) ==
    /\ \E L \in Listings({i \in DOMAIN controls : ControlMatches(controls[i], filters)},
                          unordered(controls)) :
           Called("getSecurityControls", NULL, filters, "ok",
                  [k \in DOMAIN L |-> returnedControl(controls, L[k])])
    /\ UNCHANGED <<calls, users, containers, issues, reviews, violations, controls,
                   components, now>>

getSecurityControlsByContainer(containerId) ==
    /\ \E L \in Listings({i \in DOMAIN controls : controls[i].container_id = containerId},
                          unordered(controls)) :
           Called("getSecurityControlsByContainer", containerId, <<>>, "ok",
                  [k \in DOMAIN L |-> returnedControl(controls, L[k])])
    /\ UNCHANGED <<calls, users, containers, issues, reviews, violations, controls,
                   components, now>>

\* getArchitectureComponents conditions: container_id and is_active when
\* not undefined
ComponentMatches(component, filters) ==
    /\ "container_id" \in DOMAIN filters => component.container_id = filters.container_id
    /\ "is_active" \in DOMAIN filters => component.is_active = filters.is_active

getArchitectureComponents(filters) ==
    /\ \E L \in Listings({i \in DOMAIN components :
                              ComponentMatches(components[i], filters)},
                          unordered(components)) :
           Called("getArchitectureComponents", NULL, filters, "ok",
                  [k \in DOMAIN L |->
                      [id |-> L[k],
                       position_x |-> parseNotNull(components[L[k]].position_x),
                       position_y |-> parseNotNull(components[L[k]].position_y)]])
    /\ UNCHANGED <<calls, users, containers, issues, reviews, violations, controls,
                   components, now>>

\* ratings and positions: none, zero, and a positive value
NumericValues == {NULL, 0, Num(MaxImpact)}

NumericControlInputs ==
    {[implementation_status |-> st, effectiveness_rating |-> v,
      container_id |-> 1, created_by |-> 1] :
        st \in {"Existing", "Planned"}, v \in NumericValues}

NumericComponentInputs ==
    {[position_x |-> x, position_y |-> y, container_id |-> 1, created_by |-> 1] :
        x \in NumericValues, y \in NumericValues}

ControlFilters ==
    { [f \in {} |-> 0],
      [implementation_status |-> "Existing"],
      [container_id |-> 1],
      [is_active |-> TRUE, container_id |-> MaxContainers + 1] }

ComponentFilters ==
    { [f \in {} |-> 0],
      [container_id |-> 1],
      [is_active |-> FALSE] }

NextNumeric ==
    \/ \E input \in NumericControlInputs : createSecurityControl(input)
    \/ \E input \in NumericComponentInputs : createArchitectureComponent(input)
    \/ \E filters \in ControlFilters : getSecurityControls(filters)
    \/ \E c \in AnyContainerId : getSecurityControlsByContainer(c)
    \/ \E filters \in ComponentFilters : getArchitectureComponents(filters)

SpecNumeric == InitScore /\ [][NextNumeric]_vars

-----------------------------------------------------------------------------
(* Issue writes in flight together: every await of createSecurityIssue and  *)
(* of updateSecurityIssue is one statement on the store, and the statements *)
(* of two calls interleave (no handler opens a transaction)                 *)

MaxCalls == 2

\* a call about to run its first statement
Starting(op, pc, input) ==
    [op |-> op, pc |-> pc, input |-> input, id |-> NULL, current |-> <<>>,
     container |-> NULL, avg |-> NULL, ret |-> <<>>]

\* lines 68-127 of updateSecurityIssue: updated_at, the provided fields, and
\* the risk_score computed from the row as it was read
updateValues(input, current) ==
    [f \in {"updated_at"} \cup (UpdatableFields \cap DOMAIN input)
              \cup (IF impactChanged(input) THEN {"risk_score"} ELSE {}) |->
        IF f = "updated_at" THEN now
        ELSE IF f = "risk_score" THEN newRiskScore(input, current)
        ELSE input[f]]

\* UPDATE ... SET values on one row: the other columns keep what the row
\* holds when the statement runs
setValues(row, values) ==
    [f \in DOMAIN row |-> IF f \in DOMAIN values THEN values[f] ELSE row[f]]

\* the call returns
Returns(p, ret) ==
    /\ calls' = [calls EXCEPT ![p].pc = "done", ![p].ret = ret]
    /\ Called(calls[p].op, calls[p].id, calls[p].input, "ok", ret)

\* createSecurityIssue lines 44-72: INSERT INTO security_issues
insertIssue(p) ==
    /\ calls[p].op = "createSecurityIssue"
    /\ calls[p].pc = "insert"
    /\ issues' = Append(issues, NewIssue(calls[p].input))
    /\ calls' = [calls EXCEPT ![p].pc = "average",
                              ![p].id = Len(issues) + 1,
                              ![p].container = calls[p].input.container_id,
                              ![p].ret = <<NewIssue(calls[p].input)>>]
    /\ UNCHANGED <<users, containers, reviews, violations, controls, components,
                   now, last>>

\* updateSecurityIssue lines 58-66: SELECT the current row
readCurrent(p) ==
    /\ calls[p].op = "updateSecurityIssue"
    /\ calls[p].pc = "current"
    /\ IF calls[p].input.id \notin IssueIds
       THEN /\ calls' = [calls EXCEPT ![p].pc = "done"]
            /\ Called("updateSecurityIssue", calls[p].input.id, calls[p].input,
                      "NotFound", <<>>)
       ELSE /\ calls' = [calls EXCEPT ![p].pc = "update",
                                      ![p].id = calls[p].input.id,
                                      ![p].current = issues[calls[p].input.id]]
            /\ last' = last
    /\ UNCHANGED <<users, containers, issues, reviews, violations, controls,
                   components, now>>

\* updateSecurityIssue lines 129-141: UPDATE security_issues SET updateValues;
\* the call goes on to the container only if an impact dimension was given
writeIssue(p) ==
    /\ calls[p].op = "updateSecurityIssue"
    /\ calls[p].pc = "update"
    /\ LET updatedIssue == setValues(issues[calls[p].id],
                                     updateValues(calls[p].input, calls[p].current))
       IN  /\ issues' = [issues EXCEPT ![calls[p].id] = updatedIssue]
           /\ IF impactChanged(calls[p].input)
              THEN /\ calls' = [calls EXCEPT ![p].pc = "average",
                                             ![p].container = updatedIssue.container_id,
                                             ![p].ret = <<updatedIssue>>]
                   /\ last' = last
              ELSE Returns(p, <<updatedIssue>>)
    /\ UNCHANGED <<users, containers, reviews, violations, controls, components, now>>

\* SELECT AVG(risk_score) of the container's issues: createSecurityIssue
\* lines 77-84 keep it as it is, the helper of updateSecurityIssue (lines
\* 32-38) rounds it to 2 decimals
readAverage(p) ==
    /\ calls[p].pc = "average"
    /\ calls' = [calls EXCEPT
                    ![p].pc = "container",
                    ![p].avg = IF calls[p].op = "createSecurityIssue"
                               THEN avgRisk(issues, calls[p].container)
                               ELSE roundedRiskScore(issues, calls[p].container)]
    /\ UNCHANGED <<users, containers, issues, reviews, violations, controls,
                   components, now, last>>

\* UPDATE containers SET risk_score = the average read before
writeContainer(p) ==
    /\ calls[p].pc = "container"
    /\ containers' = SetContainerRisk(containers, calls[p].container, calls[p].avg)
    /\ Returns(p, calls[p].ret)
    /\ UNCHANGED <<users, issues, reviews, violations, controls, components, now>>

\* two creates of different scores, and two updates of issue 1, each giving
\* another impact dimension
RaceCalls ==
    {Starting("createSecurityIssue", "insert",
              Uniform(v) @@ [severity |-> "High", container_id |-> 1] @@ IssueMeta) :
        v \in RecomputeScores}
    \cup
    {Starting("updateSecurityIssue", "current", input) :
        input \in {[id |-> 1, confidentiality_impact |-> Num(MaxImpact)],
                   [id |-> 1, integrity_impact |-> Num(20)]}}

\* container 1 holds one issue and its mean; each call is about to start
InitRace ==
    /\ now = 0
    /\ users = OneUser
    /\ issues = <<TopRiskIssue(60, 1)>>
    /\ containers = <<[EmptyContainer EXCEPT !.risk_score = avgRisk(issues, 1)]>>
    /\ reviews = <<>>
    /\ violations = <<>>
    /\ controls = <<>>
    /\ components = <<>>
    /\ last = NoCall
    /\ calls \in [1..MaxCalls -> RaceCalls]

NextRace ==
    \/ \E p \in DOMAIN calls : insertIssue(p)
    \/ \E p \in DOMAIN calls : readCurrent(p)
    \/ \E p \in DOMAIN calls : writeIssue(p)
    \/ \E p \in DOMAIN calls : readAverage(p)
    \/ \E p \in DOMAIN calls : writeContainer(p)

SpecRace == InitRace /\ [][NextRace]_vars

-----------------------------------------------------------------------------
(* The dashboard read while issues are written: each rollup query of        *)
(* getDashboardAnalytics is awaited on its own, and issue writes run between *)
(* two of them                                                              *)

\* getDashboardAnalytics about to run its first query
StartingDashboard ==
    [op |-> "getDashboardAnalytics", pc |-> "issueStats",
     issueStats |-> <<>>, statusStats |-> <<>>, avgRiskResult |-> NULL,
     topRiskContainers |-> <<>>, recentViolations |-> <<>>]

\* what the queries of the call leave alone
ReadOnly ==
    UNCHANGED <<users, containers, issues, reviews, violations, controls,
                components, now, last>>

\* lines 93-101: COUNT(*) GROUP BY severity
issueStatsQuery(p) ==
    /\ calls[p].pc = "issueStats"
    /\ calls' = [calls EXCEPT
                    ![p].pc = "statusStats",
                    ![p].issueStats =
                        [sv \in SeverityLevel |-> countBy(issues, "severity", sv)]]
    /\ ReadOnly

\* lines 104-112: COUNT(*) GROUP BY status
statusStatsQuery(p) ==
    /\ calls[p].pc = "statusStats"
    /\ calls' = [calls EXCEPT
                    ![p].pc = "avgRisk",
                    ![p].statusStats =
                        [st \in IssueStatus |-> countBy(issues, "status", st)]]
    /\ ReadOnly

\* lines 115-120: AVG(risk_score)
avgRiskQuery(p) ==
    /\ calls[p].pc = "avgRisk"
    /\ calls' = [calls EXCEPT ![p].pc = "topRiskContainers",
                              ![p].avgRiskResult = averageRiskScore(issues)]
    /\ ReadOnly

\* lines 123-137: the top risk containers
topRiskContainersQuery(p) ==
    /\ calls[p].pc = "topRiskContainers"
    /\ \E top \in Listings({c \in ContainerIds : IssuesOf(issues, c) # {}},
                            topRiskOrder(issues, containers)) :
           calls' = [calls EXCEPT
                        ![p].pc = "recentViolations",
                        ![p].topRiskContainers =
                            [k \in 1..Min(Len(top), TopLimit) |->
                                topRiskContainer(issues, top[k])]]
    /\ ReadOnly

\* lines 139-155: the recent violations
recentViolationsQuery(p) ==
    /\ calls[p].pc = "recentViolations"
    /\ \E recent \in Listings(recentViolations(violations, now),
                               recentOrder(violations)) :
           calls' = [calls EXCEPT ![p].pc = "controlCoverage",
                                  ![p].recentViolations = Page(recent, RecentLimit, 0)]
    /\ ReadOnly

\* lines 157-236: the control coverage query, and the record put together
\* from what the six queries returned
controlCoverageQuery(p) ==
    /\ calls[p].pc = "controlCoverage"
    /\ LET severityBreakdown == calls[p].issueStats
           statusBreakdown == calls[p].statusStats
           active == {i \in DOMAIN controls : controls[i].is_active}
           controlBreakdown ==
               [existing |-> Cardinality({i \in active :
                                controls[i].implementation_status = "Existing"}),
                planned |-> Cardinality({i \in active :
                                controls[i].implementation_status = "Planned"}),
                not_specified |-> Cardinality({i \in active :
                                controls[i].implementation_status = "NotSpecified"})]
           totalIssues == severityBreakdown["Critical"] + severityBreakdown["High"]
                          + severityBreakdown["Medium"] + severityBreakdown["Low"]
       IN  Called("getDashboardAnalytics", NULL, <<>>, "ok",
                  <<[total_issues |-> totalIssues,
                     critical_issues |-> severityBreakdown["Critical"],
                     high_issues |-> severityBreakdown["High"],
                     medium_issues |-> severityBreakdown["Medium"],
                     low_issues |-> severityBreakdown["Low"],
                     open_issues |-> statusBreakdown["Open"]
                                     + statusBreakdown["In-progress"],
                     resolved_issues |-> resolvedIssues(statusBreakdown),
                     average_risk_score |-> calls[p].avgRiskResult,
                     top_risk_containers |-> calls[p].topRiskContainers,
                     recent_violations |-> calls[p].recentViolations,
                     control_coverage |-> controlBreakdown]>>)
    /\ calls' = [calls EXCEPT ![p].pc = "done"]
    /\ UNCHANGED <<users, containers, issues, reviews, violations, controls,
                   components, now>>

\* issues of two severities written while the dashboard is read
DashboardRaceInputs ==
    {Uniform(60) @@ [severity |-> sv, container_id |-> 1] @@ IssueMeta :
        sv \in {"High", "Low"}}

\* one user, one container, no issue yet, and the dashboard call starting
InitDashboardRace ==
    /\ users = OneUser
    /\ containers = <<EmptyContainer>>
    /\ issues = <<>>
    /\ reviews = <<>>
    /\ violations = <<>>
    /\ controls = <<>>
    /\ components = <<>>
    /\ now = 0
    /\ last = NoCall
    /\ calls = <<StartingDashboard>>

NextDashboardRace ==
    \/ \E p \in DOMAIN calls : issueStatsQuery(p)
    \/ \E p \in DOMAIN calls : statusStatsQuery(p)
    \/ \E p \in DOMAIN calls : avgRiskQuery(p)
    \/ \E p \in DOMAIN calls : topRiskContainersQuery(p)
    \/ \E p \in DOMAIN calls : recentViolationsQuery(p)
    \/ \E p \in DOMAIN calls : controlCoverageQuery(p)
    \/ \E input \in DashboardRaceInputs : createSecurityIssue(input, FALSE)
    \/ \E input \in CloseInputs : updateSecurityIssue(input, FALSE)

SpecDashboardRace == InitDashboardRace /\ [][NextDashboardRace]_vars

-----------------------------------------------------------------------------
(* Two pages of users read one after the other over an unchanged store *)

\* a getUsers call of a client reading page after page
StartingPage(input) ==
    [op |-> "getUsers", pc |-> "query", input |-> input, ret |-> <<>>]

\* the call runs its one query and returns
getUsersPage(p) ==
    /\ calls[p].op = "getUsers"
    /\ calls[p].pc = "query"
    /\ \A q \in 1..(p - 1) : calls[q].pc = "done"
    /\ \E page \in usersQuery(calls[p].input) :
           /\ calls' = [calls EXCEPT ![p].pc = "done", ![p].ret = page]
           /\ Called("getUsers", NULL, calls[p].input, "ok", page)
    /\ UNCHANGED <<users, containers, issues, reviews, violations, controls,
                   components, now>>

\* the filters the pages are read with
PageFilters == {[f \in {} |-> 0], [is_active |-> TRUE], [role |-> "Admin"]}

\* the first and the second page of limit users each
TwoPages(filter, limit) ==
    <<StartingPage(filter @@ [limit |-> limit, offset |-> 0]),
      StartingPage(filter @@ [limit |-> limit, offset |-> limit])>>

\* any mix of users, some created at the same time
InitUserPages ==
    /\ now = MaxTime
    /\ \E n \in 0..MaxListed :
         \E rows \in [1..n -> UserRows], at \in [1..n -> 0..MaxTime] :
            /\ Ascending(at)
            /\ users = UsersCreatedAt(rows, at)
    /\ containers = <<>>
    /\ issues = <<>>
    /\ reviews = <<>>
    /\ violations = <<>>
    /\ controls = <<>>
    /\ components = <<>>
    /\ last = NoCall
    /\ \E filter \in PageFilters, limit \in 1..MaxListed :
           calls = TwoPages(filter, limit)

NextUserPages == \E p \in DOMAIN calls : getUsersPage(p)

SpecUserPages == InitUserPages /\ [][NextUserPages]_vars

-----------------------------------------------------------------------------
(* The list of containers *)

\* a variant that reports the risk_score column of the container row
calculatedRiskScore_stored(cs, iss, c) == cs[c].risk_score

\* parseFloat(COALESCE(AVG(security_issues.risk_score), 0)) || 0 over the
\* issues left-joined to container c
calculatedRiskScore(cs, iss, c) ==
    IF IssuesOf(iss, c) = {} THEN 0
    ELSE RoundDiv(RiskSum(iss, c), Cardinality(IssuesOf(iss, c)))

\* getContainers: the active containers, each with its calculated risk_score
getContainers ==
    /\ \E L \in Listings({c \in ContainerIds : containers[c].is_active},
                          unordered(containers)) :
           Called("getContainers", NULL, <<>>, "ok",
                  [k \in DOMAIN L |->
                      [id |-> L[k],
                       risk_score |-> calculatedRiskScore(containers, issues, L[k]),
                       is_active |-> containers[L[k]].is_active]])
    /\ UNCHANGED <<calls, users, containers, issues, reviews, violations, controls,
                   components, now>>

\* a risk_score a container row may hold
StoredScores == {0, Num(50)}

\* containers active or not, holding any risk_score, and issues of two
\* scores in either of them or in a container that does not exist
InitContainers ==
    /\ now = 0
    /\ users = OneUser
    /\ containers \in [1..MaxContainers ->
                          {[EmptyContainer EXCEPT !.is_active = a, !.risk_score = v] :
                              a \in BOOLEAN, v \in StoredScores}]
    /\ \E n \in 0..MaxQueryIssues :
           issues \in [1..n -> {TopRiskIssue(v, c) :
                                   v \in RecomputeScores, c \in AnyContainerId}]
    /\ reviews = <<>>
    /\ violations = <<>>
    /\ controls = <<>>
    /\ components = <<>>
    /\ last = NoCall
    /\ calls = NoCalls

NextContainers ==
    \/ getContainers
    \/ \E c \in ContainerIds : updateContainerRiskScore(c)

SpecContainers == InitContainers /\ [][NextContainers]_vars

-----------------------------------------------------------------------------
(* The analytics of one container *)

\* the clock's steps in one day
TicksPerDay == 2

\* date_trunc('day', created_at)::date
dayOf(t) == t \div TicksPerDay

\* .limit(10) of the top issues query
TopIssuesLimit == 10

\* containerRisk[0]?.avg_risk ? parseFloat(avg_risk) : 0
containerRiskScore(iss, c) ==
    IF IssuesOf(iss, c) = {} THEN 0
    ELSE RoundDiv(RiskSum(iss, c), Cardinality(IssuesOf(iss, c)))

\* count() of the container's issues grouped by severity: a key for each
\* severity that occurs
issueBreakdown(iss, c) ==
    [sv \in {iss[i].severity : i \in IssuesOf(iss, c)} |->
        Cardinality({i \in IssuesOf(iss, c) : iss[i].severity = sv})]

\* the container's issues grouped by the day of their creation, with the
\* average risk_score of each day, ordered by day
riskTrends(iss, c) ==
    LET days == {dayOf(iss[i].created_at) : i \in IssuesOf(iss, c)}
        onDay(d) == {i \in IssuesOf(iss, c) : dayOf(iss[i].created_at) = d}
        byDay == CHOOSE L \in Ranked(days, [d \in days |-> <<d, 0>>]) : TRUE
    IN  [k \in DOMAIN byDay |->
            [date |-> byDay[k],
             score |-> RoundDiv(SumOver(onDay(byDay[k]), RiskOf(iss), Ones(iss)),
                                Cardinality(onDay(byDay[k])))]]

\* ORDER BY risk_score DESC
topIssuesOrder(iss) == [i \in DOMAIN iss |-> <<0 - iss[i].risk_score, 0>>]

\* getContainerRiskAnalytics: four reads of the issues of containerId; the
\* containers table is not read
getContainerRiskAnalytics(containerId) ==
    /\ \E top \in Listings(IssuesOf(issues, containerId), topIssuesOrder(issues)) :
           Called("getContainerRiskAnalytics", containerId, <<>>, "ok",
                  <<[container_risk_score |-> containerRiskScore(issues, containerId),
                     issue_breakdown |-> issueBreakdown(issues, containerId),
                     risk_trends |-> riskTrends(issues, containerId),
                     top_issues |->
                         [k \in 1..Min(Len(top), TopIssuesLimit) |->
                             [id |-> top[k], risk_score |-> issues[top[k]].risk_score]]]>>)
    /\ UNCHANGED <<calls, users, containers, issues, reviews, violations, controls,
                   components, now>>

\* issues of two scores and severities, in container 1 or in a container
\* that does not exist
ContainerRiskInputs ==
    {Uniform(v) @@ [severity |-> sv, container_id |-> c] @@ IssueMeta :
        v \in RecomputeScores, sv \in {"High", "Low"}, c \in {1, MaxContainers + 1}}

\* two containers, the first perhaps holding an issue created the day
\* before
InitContainerRisk ==
    /\ now = 0
    /\ users = OneUser
    /\ containers = [c \in 1..MaxContainers |-> EmptyContainer]
    /\ issues \in {<<>>, <<TopRiskIssue(60, 1)>>}
    /\ reviews = <<>>
    /\ violations = <<>>
    /\ controls = <<>>
    /\ components = <<>>
    /\ last = NoCall
    /\ calls = NoCalls

\* the clock reaches the next day
TickDay ==
    /\ now < TicksPerDay
    /\ now' = now + 1
    /\ UNCHANGED <<calls, users, containers, issues, reviews, last, violations, controls,
                   components>>

NextContainerRisk ==
    \/ \E input \in ContainerRiskInputs : createSecurityIssue(input, FALSE)
    \/ \E c \in 1..(MaxContainers + 1) : getContainerRiskAnalytics(c)
    \/ TickDay

SpecContainerRisk == InitContainerRisk /\ [][NextContainerRisk]_vars

-----------------------------------------------------------------------------
(* What the claims speak of, stated on the store alone *)

\* x is num/den rounded to the nearest integer, halves up
Nearest(x, num, den) ==
    /\ 2 * den * x <= 2 * num + den
    /\ 2 * num + den < 2 * den * (x + 1)

AllOf(c) == {i \in DOMAIN issues : issues[i].container_id = c}
OpenOf(c) == {i \in AllOf(c) : issues[i].status = "Open"}

Score == [i \in DOMAIN issues |-> issues[i].risk_score]
Unit == [i \in DOMAIN issues |-> 1]

Weight ==
    [i \in DOMAIN issues |->
        CASE issues[i].severity = "Critical" -> 10
          [] issues[i].severity = "High" -> 8
          [] issues[i].severity = "Medium" -> 6
          [] issues[i].severity = "Low" -> 3]

\* x is the mean of risk_score over all issues of c (0 if none), to the
\* column's precision
IsMean(x, c) ==
    IF AllOf(c) = {} THEN x = 0
    ELSE Nearest(x, SumOver(AllOf(c), Score, Unit), Cardinality(AllOf(c)))

\* x is that mean rounded to 2 decimals
IsMean2(x, c) ==
    IF AllOf(c) = {} THEN x = 0
    ELSE /\ x % Cent = 0
         /\ Nearest(x \div Cent, SumOver(AllOf(c), Score, Unit),
                    Cardinality(AllOf(c)) * Cent)

\* x is the severity-weighted mean over the Open issues of c (0 if none),
\* rounded to 2 decimals and at most 100
IsWeighted(x, c) ==
    IF OpenOf(c) = {} THEN x = 0
    ELSE /\ x % Cent = 0
         /\ x <= Num(100)
         /\ Nearest(x \div Cent, SumOver(OpenOf(c), Score, Weight),
                    SumOver(OpenOf(c), Weight, Unit) * Cent)

\* the last call wrote an issue and ran the container recompute
IssueCreated == last.op = "createSecurityIssue" /\ last.outcome = "ok"
ImpactUpdated ==
    /\ last.op = "updateSecurityIssue"
    /\ last.outcome = "ok"
    /\ DOMAIN last.input \cap ImpactFields # {}

\* the container owning the issue the last call wrote
Owner == issues[last.id].container_id

-----------------------------------------------------------------------------
(* C1..C10 *)

\* C1: in every state each container's stored risk_score is an
\* aggregate of its current issues per 4.2: the simple mean over all its
\* issues, or the severity-weighted mean over its Open issues.
C1_ContainerScoreIsAggregate ==
    \A c \in DOMAIN containers :
        \/ IsMean(containers[c].risk_score, c)
        \/ IsMean2(containers[c].risk_score, c)
        \/ IsWeighted(containers[c].risk_score, c)

\* C5: every stored issue risk_score and every stored container risk_score
\* lies in [0, 100].
C5_ScoresInRange ==
    /\ \A i \in DOMAIN issues :
          0 <= issues[i].risk_score /\ issues[i].risk_score <= Num(100)
    /\ \A c \in DOMAIN containers :
          0 <= containers[c].risk_score /\ containers[c].risk_score <= Num(100)

\* C5 witness: a container whose two issues both score 100 holds exactly 100
C5_Witness ==
    \E c \in DOMAIN containers :
        /\ Cardinality(AllOf(c)) = 2
        /\ \A i \in AllOf(c) : issues[i].risk_score = Num(100)
        /\ containers[c].risk_score = Num(100)
        /\ last.op = "updateContainerRiskScore"

IsFormula(x, d) ==
    /\ x % Cent = 0
    /\ Nearest(x \div Cent,
               25 * d.confidentiality_impact + 25 * d.integrity_impact
                 + 25 * d.availability_impact + 15 * d.compliance_impact
                 + 10 * d.third_party_risk,
               100 * Cent)

\* C2: after any sequence of createSecurityIssue and updateSecurityIssue
\* calls, every stored issue's risk_score is the formula
\* 0.25/0.25/0.25/0.15/0.10 on its stored dimensions, rounded to 2 decimals.
C2_IssueScoreIsFormula ==
    \A i \in DOMAIN issues : IsFormula(issues[i].risk_score, issues[i])

\* C3: an updateSecurityIssue whose payload names an impact dimension stores
\* the payload's dimensions, keeps the others, and stores and returns the
\* formula on all five.
C3_UpdateRecombinesAllFive ==
    [][(/\ last'.op = "updateSecurityIssue"
        /\ last'.outcome = "ok"
        /\ DOMAIN last'.input \cap ImpactFields # {})
       => LET p == last'.input
              old == issues[p.id]
              new == issues'[p.id]
              mix == [f \in ImpactFields |->
                         IF f \in DOMAIN p THEN p[f] ELSE old[f]]
          IN  /\ \A f \in ImpactFields : new[f] = mix[f]
              /\ IsFormula(new.risk_score, mix)
              /\ last'.ret = <<new>>]_vars

\* C3 witness: from 50/30/20/10/5, confidentiality set to 90 and compliance
\* to 40: the other three kept, score 41.5
C3_Witness ==
    /\ last.op = "updateSecurityIssue"
    /\ last.outcome = "ok"
    /\ DOMAIN last.input = {"id", "confidentiality_impact", "compliance_impact"}
    /\ issues[1].confidentiality_impact = Num(90)
    /\ issues[1].integrity_impact = Num(30)
    /\ issues[1].availability_impact = Num(20)
    /\ issues[1].compliance_impact = Num(40)
    /\ issues[1].third_party_risk = Num(5)
    /\ issues[1].risk_score = 415 * (Scale \div 10)

\* C4: an issue created or updated with all five dimensions equal to an
\* integer v in 0..100 has risk_score exactly v.
C4_UniformScoresItself ==
    \A i \in DOMAIN issues : \A v \in 0..MaxImpact :
        (\A f \in ImpactFields : issues[i][f] = Num(v))
            => issues[i].risk_score = Num(v)

\* C4 witness: an issue created with one uniform value and updated to all 100
C4_Witness ==
    /\ last.op = "updateSecurityIssue"
    /\ last.outcome = "ok"
    /\ \A f \in ImpactFields : issues[1][f] = Num(MaxImpact)
    /\ issues[1].risk_score = Num(MaxImpact)

\* the last call was a successful updateContainerRiskScore
Recomputed == last.op = "updateContainerRiskScore" /\ last.outcome = "ok"

\* C7: updateContainerRiskScore(c) stores and returns the severity-weighted
\* mean (weights 1.0/0.8/0.6/0.3, rounded to 2 decimals) of the Open issues
\* of c only, 0 when there is none, and never more than 100.
C7_RecomputeIsWeightedOpenMean ==
    Recomputed =>
        /\ IsWeighted(containers[last.id].risk_score, last.id)
        /\ last.ret = <<containers[last.id]>>
        /\ containers[last.id].risk_score <= Num(100)

\* C7 witness: Open issues of different severities and scores next to an
\* issue that is not Open, the stored score being neither issue's
C7_Witness ==
    /\ Recomputed
    /\ \E i, j \in OpenOf(last.id) :
          /\ issues[i].severity # issues[j].severity
          /\ issues[i].risk_score # issues[j].risk_score
    /\ \E i \in AllOf(last.id) : issues[i].status = "In-progress"
    /\ \A i \in AllOf(last.id) : issues[i].risk_score # containers[last.id].risk_score

\* C8: a second updateContainerRiskScore on the same container, no issue
\* written in between, stores and returns the same risk_score and changes
\* nothing in the store but that container's updated_at.
C8_RecomputeIdempotent ==
    [][(/\ Recomputed
        /\ last'.op = "updateContainerRiskScore"
        /\ last'.outcome = "ok"
        /\ last'.id = last.id)
       => /\ last'.ret[1].risk_score = last.ret[1].risk_score
          /\ containers'[last.id].risk_score = containers[last.id].risk_score
          /\ users' = users /\ issues' = issues /\ reviews' = reviews
          /\ DOMAIN containers' = DOMAIN containers
          /\ \A c \in DOMAIN containers : \A f \in DOMAIN containers[c] :
                (c # last.id \/ f # "updated_at")
                    => containers'[c][f] = containers[c][f]]_vars

\* C8 witness: the second of two recomputes, made later than the first, on a
\* container with a positive score
C8_Witness ==
    /\ Recomputed
    /\ last.repeat
    /\ now > 0
    /\ containers[last.id].updated_at = now
    /\ containers[last.id].risk_score > 0
    /\ \E i \in AllOf(last.id) : issues[i].status # "Open"

\* C9: updateContainerRiskScore, updateSecurityIssue and
\* processDocumentAiAnalysis on an id that names no row fail with not-found
\* and leave every table as it was.
C9_NotFoundChangesNothing ==
    [][(\/ last'.op = "updateContainerRiskScore" /\ last'.id \notin DOMAIN containers
        \/ last'.op = "updateSecurityIssue" /\ last'.id \notin DOMAIN issues
        \/ last'.op = "processDocumentAiAnalysis" /\ last'.id \notin DOMAIN reviews)
       => /\ last'.outcome = "NotFound"
          /\ tables' = tables]_vars

\* C9 witness: processDocumentAiAnalysis on a review id that names no row,
\* every table holding rows
C9_Witness ==
    /\ last.op = "processDocumentAiAnalysis"
    /\ last.outcome = "NotFound"
    /\ last.id \notin DOMAIN reviews
    /\ reviews # <<>> /\ issues # <<>> /\ containers # <<>>

\* C10: when the container recompute that follows an issue write fails,
\* createSecurityIssue and updateSecurityIssue still return the persisted
\* issue row without an error.
C10_IssueWriteSurvivesRecomputeFailure ==
    last.fault =>
        /\ last.outcome = "ok"
        /\ last.id \in DOMAIN issues
        /\ last.ret = <<issues[last.id]>>

\* id names a row of table t
Resolves(id, t) == id \in DOMAIN t

\* id is NULL or names a row of table t
ResolvesOrNull(id, t) == id = NULL \/ Resolves(id, t)

\* C11: every non-null created_by, container_id, assigned_to,
\* related_issue_id, reviewer_id and parent_issue_id stored on any row names
\* an existing row of the right table (so an issue whose references do not
\* resolve is never stored).
C11_ReferencesResolve ==
    /\ \A c \in DOMAIN containers : Resolves(containers[c].created_by, users)
    /\ \A i \in DOMAIN issues :
          /\ Resolves(issues[i].container_id, containers)
          /\ Resolves(issues[i].created_by, users)
          /\ ResolvesOrNull(issues[i].assigned_to, users)
          /\ ResolvesOrNull(issues[i].parent_issue_id, issues)
    /\ \A r \in DOMAIN reviews :
          /\ Resolves(reviews[r].created_by, users)
          /\ ResolvesOrNull(reviews[r].container_id, containers)
          /\ ResolvesOrNull(reviews[r].reviewer_id, users)
    /\ \A v \in DOMAIN violations :
          /\ Resolves(violations[v].created_by, users)
          /\ ResolvesOrNull(violations[v].container_id, containers)
          /\ ResolvesOrNull(violations[v].related_issue_id, issues)
          /\ ResolvesOrNull(violations[v].assigned_to, users)
    /\ \A k \in DOMAIN controls :
          /\ Resolves(controls[k].container_id, containers)
          /\ Resolves(controls[k].created_by, users)
    /\ \A k \in DOMAIN components :
          /\ Resolves(components[k].container_id, containers)
          /\ Resolves(components[k].created_by, users)

\* the references of an input, as <<entity, id>>, that name no row
Unresolved(input) ==
    {<<"User", input[f]>> : f \in {g \in {"created_by", "assigned_to"} \cap DOMAIN input :
                                      ~ResolvesOrNull(input[g], users)}}
    \cup {<<"Container", input[f]>> : f \in {g \in {"container_id"} \cap DOMAIN input :
                                      ~ResolvesOrNull(input[g], containers)}}
    \cup {<<"Security issue", input[f]>> :
             f \in {g \in {"related_issue_id"} \cap DOMAIN input :
                       ~ResolvesOrNull(input[g], issues)}}

CheckingCreators ==
    {"createContainer", "createSecurityReview", "createSecurityViolation",
     "createSecurityControl", "createArchitectureComponent"}

\* what the error of the last call names: an entity (the assignee being a
\* user) and an id
Named(call) ==
    <<IF call.ret[1] = "Assigned user" THEN "User" ELSE call.ret[1], call.id>>

\* C12: createContainer, createSecurityReview, createSecurityViolation,
\* createSecurityControl and createArchitectureComponent called with a
\* non-null reference that names no row fail with an error naming the entity
\* and the id, and leave the store unchanged.
C12_CreatorsCheckReferences ==
    [][(last'.op \in CheckingCreators /\ Unresolved(last'.input) # {})
       => /\ last'.outcome = "NotFound"
          /\ Named(last') \in Unresolved(last'.input)
          /\ tables' = tables]_vars

\* C13: every issue with a non-null parent_issue_id has a parent that exists
\* and belongs to the same container.
C13_ParentInSameContainer ==
    \A i \in DOMAIN issues :
        issues[i].parent_issue_id # NULL
            => /\ issues[i].parent_issue_id \in DOMAIN issues
               /\ issues[issues[i].parent_issue_id].container_id = issues[i].container_id

\* C14: a step that serves updateSecurityIssue (the clock stands still
\* during it) writes the fields its payload names and
\* updated_at, and nothing else: every other field of the issue, every other
\* issue and every other table keep their values; risk_score and the
\* containers change only when the payload names an impact dimension.
C14_UpdateChangesOnlyPayload ==
    [][(last'.op = "updateSecurityIssue" /\ last'.outcome = "ok" /\ now' = now)
       => LET p == last'.input
              old == issues[p.id]
              new == issues'[p.id]
              named == DOMAIN p \ {"id"}
          IN  /\ DOMAIN issues' = DOMAIN issues
              /\ DOMAIN new = DOMAIN old
              /\ \A f \in DOMAIN old \ {"updated_at", "risk_score"} :
                    new[f] = IF f \in named THEN p[f] ELSE old[f]
              /\ new.updated_at = now
              /\ \A j \in DOMAIN issues \ {p.id} : issues'[j] = issues[j]
              /\ named \cap ImpactFields = {}
                    => new.risk_score = old.risk_score /\ containers' = containers
              /\ \A c \in DOMAIN containers \ {old.container_id} :
                    containers'[c] = containers[c]
              /\ <<users, reviews, violations, controls, components>>'
                    = <<users, reviews, violations, controls, components>>]_vars

\* C14 witness: the second of two issues, created at time 0 with score 52,
\* closed and assigned later by a payload naming status and assigned_to only
C14_Witness ==
    /\ last.op = "updateSecurityIssue"
    /\ last.outcome = "ok"
    /\ last.input = [id |-> 2, status |-> "Closed", assigned_to |-> 1]
    /\ issues[2].status = "Closed"
    /\ issues[2].assigned_to = 1
    /\ issues[2].severity = "High"
    /\ issues[2].risk_score = Num(52)
    /\ issues[2].created_at = 0
    /\ issues[2].updated_at = now
    /\ now > 0
    /\ containers[1].updated_at = 0

-----------------------------------------------------------------------------
(* Queries on issues *)

Range(seq) == {seq[k] : k \in DOMAIN seq}

NoRepeats(seq) == \A j, k \in DOMAIN seq : j # k => seq[j] # seq[k]

IssueQueried == last.op = "getSecurityIssues" /\ last.outcome = "ok"

\* issue i satisfies the filter field f holding v
Satisfies(i, f, v) ==
    CASE f = "created_after" -> v <= issues[i].created_at
      [] f = "created_before" -> issues[i].created_at <= v
      [] f = "risk_score_min" -> v <= issues[i].risk_score
      [] f = "risk_score_max" -> issues[i].risk_score <= v
      [] OTHER -> issues[i][f] = v

\* C15: getSecurityIssues(filter) returns exactly the issues that satisfy
\* every field the filter provides (equality on container_id, severity,
\* status, classification, assigned_to, is_automated_finding; created_after
\* <= created_at <= created_before; risk_score_min <= risk_score <=
\* risk_score_max, bounds included), each once; a field left out constrains
\* nothing, and no filter returns every issue.
C15_FilterIsConjunction ==
    IssueQueried =>
        /\ NoRepeats(last.ret)
        /\ Range(last.ret) =
               {i \in DOMAIN issues :
                   \A f \in DOMAIN last.input : Satisfies(i, f, last.input[f])}

\* a filter of two fields returned some issues and left out one that
\* satisfies only one of the two, and one whose risk_score is the bound
C15_Witness ==
    /\ IssueQueried
    /\ DOMAIN last.input = {"created_after", "risk_score_max"}
    /\ last.ret # <<>>
    /\ \E i \in DOMAIN issues \ Range(last.ret) :
           Satisfies(i, "created_after", last.input.created_after)
    /\ \E i \in DOMAIN issues \ Range(last.ret) :
           Satisfies(i, "risk_score_max", last.input.risk_score_max)
    /\ \E k \in DOMAIN last.ret :
           issues[last.ret[k]].risk_score = last.input.risk_score_max

\* C16: the issues getSecurityIssues returns come by descending risk_score,
\* and by descending created_at among equal risk_score, with or without a
\* filter.
C16_IssuesByScoreThenDate ==
    IssueQueried =>
        \A j, k \in DOMAIN last.ret :
            j < k =>
                LET a == issues[last.ret[j]]
                    b == issues[last.ret[k]]
                IN  \/ a.risk_score > b.risk_score
                    \/ a.risk_score = b.risk_score /\ a.created_at >= b.created_at

\* a filtered query returned three issues: two of one risk_score created at
\* different times, and one of another risk_score
C16_Witness ==
    /\ IssueQueried
    /\ DOMAIN last.input # {}
    /\ Len(last.ret) = 3
    /\ \E j, k \in DOMAIN last.ret :
           /\ issues[last.ret[j]].risk_score = issues[last.ret[k]].risk_score
           /\ issues[last.ret[j]].created_at # issues[last.ret[k]].created_at
    /\ \E j, k \in DOMAIN last.ret :
           issues[last.ret[j]].risk_score # issues[last.ret[k]].risk_score

-----------------------------------------------------------------------------
(* Queries on violations and users *)

BySeverity == <<"Critical", "High", "Medium", "Low">>

\* the place of violation i's severity in Critical, High, Medium, Low
Place(i) == CHOOSE k \in DOMAIN BySeverity : BySeverity[k] = violations[i].severity

\* the listing goes by severity Critical to Low, and newest first within one
\* severity
BySeverityThenNewest(listing) ==
    \A j, k \in DOMAIN listing :
        j < k =>
            \/ Place(listing[j]) < Place(listing[k])
            \/ /\ Place(listing[j]) = Place(listing[k])
               /\ violations[listing[j]].created_at >= violations[listing[k]].created_at

ViolationsQueried == last.op = "getSecurityViolations" /\ last.outcome = "ok"

\* C17: getSecurityViolations called without an order_by returns the
\* violations by severity Critical > High > Medium > Low and, within one
\* severity, by descending created_at.
C17_DefaultOrderIsSeverityThenDate ==
    (ViolationsQueried /\ "order_by" \notin DOMAIN last.input) =>
        BySeverityThenNewest(last.ret)

ActiveQueried == last.op = "getActiveSecurityViolations" /\ last.outcome = "ok"

\* C18: getActiveSecurityViolations returns exactly the violations whose
\* status is Open or In-progress, each once, ordered Critical, High, Medium,
\* Low and, within one severity, newest created_at first.
C18_ActiveAreOpenBySeverity ==
    ActiveQueried =>
        /\ NoRepeats(last.ret)
        /\ Range(last.ret) =
               {i \in DOMAIN violations :
                   violations[i].status \in {"Open", "In-progress"}}
        /\ BySeverityThenNewest(last.ret)

\* the store holds a violation that is not active; the listing holds two
\* violations of one severity created at different times, and a violation of
\* a higher severity that was created before one of a lower severity
C18_Witness ==
    /\ ActiveQueried
    /\ \E i \in DOMAIN violations : violations[i].status \in {"Closed", "Resolved"}
    /\ \E i \in DOMAIN violations : violations[i].status = "In-progress"
    /\ \E j, k \in DOMAIN last.ret :
           \/ /\ Place(last.ret[j]) = Place(last.ret[k])
              /\ violations[last.ret[j]].created_at # violations[last.ret[k]].created_at
           \/ /\ Place(last.ret[j]) < Place(last.ret[k])
              /\ violations[last.ret[j]].created_at < violations[last.ret[k]].created_at

PageQueried ==
    /\ last.op \in {"getUsers", "getSecurityViolations"}
    /\ last.outcome = "ok"

\* what the caller asked for field f, or the default
Asked(f, default) == IF f \in DOMAIN last.input THEN last.input[f] ELSE default

\* the table the last call listed
Listed == IF last.op = "getUsers" THEN users ELSE violations

\* the rows that satisfy every filter field of the last call
Matching ==
    {i \in DOMAIN Listed :
        \A f \in DOMAIN last.input \ {"limit", "offset", "order_by"} :
            Listed[i][f] = last.input[f]}

\* the order of the last call's listing puts row i strictly before row j:
\* users and violations newest first, unless the caller chose another order
Precedes(i, j) ==
    CASE last.op = "getUsers" -> users[i].created_at > users[j].created_at
      [] Asked("order_by", "created_at") = "incident_date" ->
             violations[i].incident_date > violations[j].incident_date
      [] OTHER -> violations[i].created_at > violations[j].created_at

-----------------------------------------------------------------------------
(* The dashboard *)

DashboardRead == last.op = "getDashboardAnalytics" /\ last.outcome = "ok"

\* the number of issues whose column f holds one of the values in V
Holding(f, V) == Cardinality({i \in DOMAIN issues : issues[i][f] \in V})

\* C20: getDashboardAnalytics returns total_issues = the number of issues;
\* critical/high/medium/low_issues = the number of issues of that severity;
\* open_issues = the number with status Open or In-progress; resolved_issues
\* = the number with status Closed or Resolved; average_risk_score = the
\* mean of all issues' risk_score, or 0 when there is no issue.
C20_DashboardCounts ==
    DashboardRead =>
        LET d == last.ret[1]
        IN  /\ d.total_issues = Len(issues)
            /\ d.critical_issues = Holding("severity", {"Critical"})
            /\ d.high_issues = Holding("severity", {"High"})
            /\ d.medium_issues = Holding("severity", {"Medium"})
            /\ d.low_issues = Holding("severity", {"Low"})
            /\ d.open_issues = Holding("status", {"Open", "In-progress"})
            /\ d.resolved_issues = Holding("status", {"Closed", "Resolved"})
            /\ IF issues = <<>> THEN d.average_risk_score = 0
               ELSE Nearest(d.average_risk_score,
                            SumOver(DOMAIN issues, Score, Unit), Len(issues))

\* the dashboard was read on a store holding an issue In-progress, one
\* Resolved and one Open, of different severities and risk scores
C20_Witness ==
    /\ DashboardRead
    /\ \E i, j, k \in DOMAIN issues :
           /\ issues[i].status = "In-progress"
           /\ issues[j].status = "Resolved"
           /\ issues[k].status = "Open"
           /\ issues[k].severity # "Critical"
           /\ issues[k].risk_score # issues[i].risk_score
    /\ last.ret[1].open_issues = 2
    /\ last.ret[1].resolved_issues = 1

\* the containers holding at least one issue
WithIssues == {c \in DOMAIN containers : AllOf(c) # {}}

\* the mean risk_score of container c's issues is at most that of d's
MeanAtMost(c, d) ==
    SumOver(AllOf(c), Score, Unit) * Cardinality(AllOf(d))
        <= SumOver(AllOf(d), Score, Unit) * Cardinality(AllOf(c))

\* C21: top_risk_containers of getDashboardAnalytics holds at most 5
\* entries, one per container that has at least one issue (all of them when
\* there are at most 5), each with that container's id, the mean risk_score
\* of its issues and its issue count, sorted by that mean descending; no
\* container left out has a strictly higher mean than a listed one.
C21_TopRiskContainers ==
    DashboardRead =>
        LET top == last.ret[1].top_risk_containers
            listed == {top[k].container_id : k \in DOMAIN top}
        IN  /\ Len(top) <= 5
            /\ Len(top) = Min(5, Cardinality(WithIssues))
            /\ listed \subseteq WithIssues
            /\ \A j, k \in DOMAIN top :
                   j # k => top[j].container_id # top[k].container_id
            /\ \A k \in DOMAIN top :
                   /\ IsMean(top[k].risk_score, top[k].container_id)
                   /\ top[k].issue_count = Cardinality(AllOf(top[k].container_id))
            /\ \A j, k \in DOMAIN top :
                   j < k => top[j].risk_score >= top[k].risk_score
            /\ \A c \in WithIssues \ listed : \A d \in listed : MeanAtMost(c, d)

\* the dashboard was read on a store where six containers hold issues, of
\* three different means: five are listed and the one left out holds a
\* lower mean than the first listed
C21_Witness ==
    /\ DashboardRead
    /\ Cardinality(WithIssues) = 6
    /\ LET top == last.ret[1].top_risk_containers
       IN  /\ Len(top) = 5
           /\ top[1].risk_score = Num(90)
           /\ top[1].issue_count = 1
           /\ top[2].risk_score = Num(90)
           /\ \E k \in DOMAIN top :
                  top[k].risk_score = Num(70) /\ top[k].issue_count = 2
           /\ \E c \in WithIssues :
                  /\ \A k \in DOMAIN top : top[k].container_id # c
                  /\ issues[CHOOSE i \in AllOf(c) : TRUE].risk_score = Num(60)

\* the violations whose incident happened in the last 30 days
InLastThirtyDays == {i \in DOMAIN violations : violations[i].incident_date >= now - 30}

\* C22: recent_violations of getDashboardAnalytics contains only violations
\* whose incident_date is within the last 30 days, holds at most 10 entries
\* (all of the recent ones when there are at most 10), and lists them newest
\* first by incident_date.
C22_RecentNewestByIncident ==
    DashboardRead =>
        LET recent == last.ret[1].recent_violations
        IN  /\ Range(recent) \subseteq InLastThirtyDays
            /\ NoRepeats(recent)
            /\ Len(recent) = Min(10, Cardinality(InLastThirtyDays))
            /\ \A j, k \in DOMAIN recent :
                   j < k => violations[recent[j]].incident_date
                               >= violations[recent[k]].incident_date

-----------------------------------------------------------------------------
(* The analytics of one container *)

\* C23: getContainerRiskAnalytics called with the id of a container that
\* does not exist, or that has no issues, returns container_risk_score 0, an
\* empty issue_breakdown, empty risk_trends and empty top_issues instead of
\* failing, and modifies nothing in the store.
C23_EmptyAnalytics ==
    [][(last'.op = "getContainerRiskAnalytics" /\ last' # last) =>
          /\ tables' = tables
          /\ (last'.id \notin DOMAIN containers \/ AllOf(last'.id) = {}) =>
                 /\ last'.outcome = "ok"
                 /\ last'.ret[1].container_risk_score = 0
                 /\ DOMAIN last'.ret[1].issue_breakdown = {}
                 /\ last'.ret[1].risk_trends = <<>>
                 /\ last'.ret[1].top_issues = <<>>]_vars

-----------------------------------------------------------------------------
(* The life of a review *)

\* processDocumentAiAnalysis has returned the review r
Analysed(r) ==
    /\ last.op = "processDocumentAiAnalysis"
    /\ last.outcome = "ok"
    /\ last.id = r

\* C24: in every state reachable through createSecurityReview and
\* processDocumentAiAnalysis, a review has ai_analysis_complete = true
\* exactly if processDocumentAiAnalysis has completed on it (it is so after
\* a step exactly if it was so before or the call just returned it), and
\* exactly then its status is Completed and its ai_analysis_results are
\* non-null; otherwise it is Pending with ai_analysis_complete false and
\* null results.
C24_ReviewLifecycle ==
    /\ [](\A r \in DOMAIN reviews :
             IF reviews[r].ai_analysis_complete
             THEN /\ reviews[r].status = "Completed"
                  /\ reviews[r].ai_analysis_results # NoText
             ELSE /\ reviews[r].status = "Pending"
                  /\ reviews[r].ai_analysis_results = NoText)
    /\ [][\A r \in DOMAIN reviews' :
             reviews'[r].ai_analysis_complete
                 <=> \/ r \in DOMAIN reviews /\ reviews[r].ai_analysis_complete
                     \/ Analysed(r)']_vars

\* a review created Pending has been analysed: it is Completed, with
\* ai_analysis_complete set and the results of the analysis stored
C24_Witness ==
    /\ Analysed(1)
    /\ reviews[1].ai_analysis_complete
    /\ reviews[1].status = "Completed"
    /\ reviews[1].ai_analysis_results = "General"
    /\ now = MaxTime

-----------------------------------------------------------------------------
(* Numeric fields of controls and components *)

\* C25: every numeric field returned by a create or read handler equals the
\* stored value and is null only when the stored value is null: the
\* effectiveness_rating returned by createSecurityControl, getSecurityControls
\* and getSecurityControlsByContainer is the one stored on the control (0 is
\* returned as 0), and the position_x and position_y returned by
\* createArchitectureComponent and getArchitectureComponents are the ones
\* stored on the component.
C25_NumericFieldsAsStored ==
    /\ (last.op = "createSecurityControl" /\ last.outcome = "ok") =>
           last.ret[1].effectiveness_rating = controls[last.id].effectiveness_rating
    /\ (last.op \in {"getSecurityControls", "getSecurityControlsByContainer"}
            /\ last.outcome = "ok") =>
           \A k \in DOMAIN last.ret :
               last.ret[k].effectiveness_rating
                   = controls[last.ret[k].id].effectiveness_rating
    /\ (last.op = "createArchitectureComponent" /\ last.outcome = "ok") =>
           /\ last.ret[1].position_x = components[last.id].position_x
           /\ last.ret[1].position_y = components[last.id].position_y
    /\ (last.op = "getArchitectureComponents" /\ last.outcome = "ok") =>
           \A k \in DOMAIN last.ret :
               /\ last.ret[k].position_x = components[last.ret[k].id].position_x
               /\ last.ret[k].position_y = components[last.ret[k].id].position_y

-----------------------------------------------------------------------------
(* The list of containers *)

ContainersRead == last.op = "getContainers" /\ last.outcome = "ok"

\* C26: getContainers returns exactly the containers with is_active = true,
\* each once, and the risk_score reported for each is the arithmetic mean of
\* risk_score over all that container's issues (0 when it has none),
\* whatever is stored in the container row.
C26_ActiveContainersWithMeans ==
    ContainersRead =>
        /\ {last.ret[k].id : k \in DOMAIN last.ret}
               = {c \in DOMAIN containers : containers[c].is_active}
        /\ \A j, k \in DOMAIN last.ret : j # k => last.ret[j].id # last.ret[k].id
        /\ \A k \in DOMAIN last.ret : IsMean(last.ret[k].risk_score, last.ret[k].id)

\* the containers were read on a store with an inactive container holding
\* an issue, and an active one whose row holds a risk_score that is not the
\* mean of its two issues
C26_Witness ==
    /\ ContainersRead
    /\ Len(last.ret) = 1
    /\ \E c \in DOMAIN containers : ~containers[c].is_active /\ AllOf(c) # {}
    /\ Cardinality(AllOf(last.ret[1].id)) = 2
    /\ last.ret[1].risk_score = Num(75)
    /\ containers[last.ret[1].id].risk_score # Num(75)

-----------------------------------------------------------------------------
(* Calls in flight together *)

\* every call has returned
AllReturned == \A p \in DOMAIN calls : calls[p].pc = "done"

\* how many of the calls are of handler op
CallsOf(op) == Cardinality({p \in DOMAIN calls : calls[p].op = op})

\* C27: two issue writes on the same container (two createSecurityIssue
\* calls, or a create and an impact-changing update) run with their store
\* statements interleaved in any order: once both have returned, the
\* container's stored risk_score is the simple mean of risk_score over the
\* issues the container then holds (as the create path stores it, or rounded
\* to 2 decimals as the update path does).
C27_MeanAfterConcurrentWrites ==
    (AllReturned /\ CallsOf("createSecurityIssue") >= 1) =>
        \/ IsMean(containers[1].risk_score, 1)
        \/ IsMean2(containers[1].risk_score, 1)

\* the impact dimensions given by some call in flight
GivenDimensions(p) == DOMAIN calls[p].input \cap ImpactFields

\* C28: two updateSecurityIssue calls on the same issue, each changing
\* another impact dimension, run with their reads and writes interleaved:
\* once both have returned, the issue's stored risk_score is the weighted
\* formula on its five stored impact dimensions.
C28_ScoreAfterConcurrentUpdates ==
    (/\ AllReturned
     /\ CallsOf("updateSecurityIssue") = Cardinality(DOMAIN calls)
     /\ \A p, q \in DOMAIN calls :
            p # q => /\ calls[p].id = calls[q].id
                     /\ GivenDimensions(p) \cap GivenDimensions(q) = {})
        => IsFormula(issues[calls[1].id].risk_score, issues[calls[1].id])

\* C29: a single getDashboardAnalytics result is consistent in itself even
\* when issue writes run between its rollup queries: total_issues =
\* critical_issues + high_issues + medium_issues + low_issues =
\* open_issues + resolved_issues.
C29_DashboardTotalsAgree ==
    DashboardRead =>
        LET d == last.ret[1]
        IN  /\ d.total_issues = d.critical_issues + d.high_issues
                                  + d.medium_issues + d.low_issues
            /\ d.total_issues = d.open_issues + d.resolved_issues

-----------------------------------------------------------------------------
(* Pages of users *)

\* the users a page request's filter selects
Selected(input) ==
    {i \in DOMAIN users :
        /\ "role" \in DOMAIN input => users[i].role = input.role
        /\ "is_active" \in DOMAIN input => users[i].is_active = input.is_active}

\* C30: over an unchanged store, two getUsers pages with the same filter and
\* limit L at offsets 0 and L share no user and together are the first 2L
\* users of the un-paginated result (newest first): as many users as the
\* filter selects, up to 2L, none left out being newer than one listed; also
\* when several users share the same created_at.
C30_PagesPartitionTheListing ==
    AllReturned =>
        LET first == calls[1].ret
            second == calls[2].ret
            both == Range(first) \cup Range(second)
            all == Selected(calls[1].input)
        IN  /\ Range(first) \cap Range(second) = {}
            /\ NoRepeats(first \o second)
            /\ both \subseteq all
            /\ Cardinality(both) = Min(2 * calls[1].input.limit, Cardinality(all))
            /\ \A i \in all \ both : \A j \in both :
                   users[i].created_at <= users[j].created_at

====
